---- MODULE Spec2Model ----
(***************************************************************************)
(* A model of the m-lang tree-walking interpreter (src/src/interpreter.rs, *)
(* src/src/environment.rs, src/src/value.rs, src/src/ast.rs).              *)
(*                                                                         *)
(* The interpreter state is the environment chain, the list of imported    *)
(* paths and the text written to stdout.  The main program is a Block:     *)
(* every action evaluates the next top-level statement of the program      *)
(* with the recursive evaluator Evaluate, which is translated arm by arm   *)
(* from Interpreter::evaluate.                                             *)
(***************************************************************************)
EXTENDS Integers, Sequences, FiniteSets, TLC

(***************************************************************************)
(* Bounds of the model.                                                    *)
(***************************************************************************)
\* number of top-level statements of the main program
MaxStmts == 3
\* number of loop iterations and calls one top-level statement may perform
MaxFuel == 40
\* number of top-level statements of a program over values
MaxValueStmts == 2
\* magnitude of the integer operands of the programs over values
MaxInt == 3
\* the longest text over the Alphabet handed to the lexer
MaxChars == 3
\* the most semicolons in a row between two statements
MaxSemicolons == 2

(***************************************************************************)
(* Values (src/src/value.rs).  A Number is the f64 n/d, kept normalised    *)
(* (d > 0, gcd(n, d) = 1); a String is its sequence of characters.         *)
(***************************************************************************)
Nil == [t |-> "Nil"]

RECURSIVE Gcd(_, _)
Gcd(a, b) == IF b = 0 THEN a ELSE Gcd(b, a % b)

Abs(i) == IF i < 0 THEN -i ELSE i

\* the Number value n/d, d # 0
Rat(n, d) ==
    LET g == Gcd(Abs(n), Abs(d))
        s == IF d < 0 THEN -1 ELSE 1
    IN  [t |-> "Number", n |-> (s * n) \div g, d |-> (s * d) \div g]

Num(i) == [t |-> "Number", n |-> i, d |-> 1]

Str(s) == [t |-> "String", s |-> s]

Bool(b) == [t |-> "Boolean", b |-> b]

Arr(a) == [t |-> "Array", a |-> a]

FunctionValue(params, body) == [t |-> "Function", params |-> params, body |-> body]

TransformerValue(params, body) == [t |-> "Transformer", params |-> params, body |-> body]

(***************************************************************************)
(* Environment (src/src/environment.rs): a chain of frames, innermost      *)
(* first; a frame is a function from the names it binds to their values.   *)
(* Box<Environment> is owned, so a chain is a value and clone() is the     *)
(* identity on it.                                                         *)
(***************************************************************************)
EmptyFrame == [n \in {} |-> Nil]

\* Environment::new_with_enclosing
NewWithEnclosing(enclosing) == <<EmptyFrame>> \o enclosing

\* HashMap::insert on one frame
FrameInsert(frame, name, value) ==
    [n \in (DOMAIN frame) \cup {name} |-> IF n = name THEN value ELSE frame[n]]

\* Environment::define: insert into the innermost frame
EnvDefine(env, name, value) ==
    [env EXCEPT ![1] = FrameInsert(env[1], name, value)]

\* Environment::get(...).is_some()
EnvHas(env, name) == \E i \in 1..Len(env) : name \in DOMAIN env[i]

\* index of the first frame that binds name (0 when none does)
RECURSIVE FirstFrame(_, _, _)
FirstFrame(env, name, i) ==
    IF i > Len(env) THEN 0
    ELSE IF name \in DOMAIN env[i] THEN i
    ELSE FirstFrame(env, name, i + 1)

\* Environment::get: the value in the first frame that binds name
EnvGet(env, name) == env[FirstFrame(env, name, 1)][name]

\* an assign that writes the innermost frame whichever frame binds name
EnvAssignInnermost(env, name, value) ==
    [env EXCEPT ![1] = FrameInsert(env[1], name, value)]

\* an assign that writes every frame that binds name
EnvAssignEveryFrame(env, name, value) ==
    [i \in 1..Len(env) |->
        IF name \in DOMAIN env[i] THEN FrameInsert(env[i], name, value) ELSE env[i]]

\* Environment::assign: update the first frame that binds name; the caller
\* handles the Err of the unbound case (EnvHas is false)
EnvAssign(env, name, value) ==
    LET i == FirstFrame(env, name, 1)
    IN  [env EXCEPT ![i] = FrameInsert(env[i], name, value)]

(***************************************************************************)
(* Expr (src/src/ast.rs).  Option<Box<Expr>> is a sequence of length 0 or  *)
(* 1; an operator Token is its TokenType.  The payload of a literal is     *)
(* the field v of a Number, s of a String and b of a Boolean.  Every       *)
(* record of the module lists its fields in the order in which TLC keeps   *)
(* them (the order in which the names first occur in the module), so a     *)
(* record is never reordered while two workers read it.                    *)
(***************************************************************************)
ExprNumber(v) == [v |-> v, k |-> "Number"]

ExprString(s) == [s |-> s, k |-> "String"]

ExprBoolean(b) == [b |-> b, k |-> "Boolean"]

ExprArray(elements) == [k |-> "Array", elements |-> elements]

ExprVariable(name) == [name |-> name, k |-> "Variable"]

ExprBinary(left, operator, right) ==
    [k |-> "Binary", left |-> left, operator |-> operator, right |-> right]

ExprUnary(operator, right) == [k |-> "Unary", operator |-> operator, right |-> right]

ExprAssign(name, value) == [name |-> name, value |-> value, k |-> "Assign"]

ExprCall(callee, arguments) == [k |-> "Call", callee |-> callee, arguments |-> arguments]

ExprFunction(name, params, body) ==
    [params |-> params, body |-> body, name |-> name, k |-> "Function"]

ExprReturn(value) == [value |-> value, k |-> "Return"]

ExprBlock(expressions) == [k |-> "Block", expressions |-> expressions]

ExprIf(condition, then_branch, else_branch) ==
    [k |-> "If", condition |-> condition, then_branch |-> then_branch,
     else_branch |-> else_branch]

ExprFor(variable, iterable, body) ==
    [body |-> body, k |-> "For", variable |-> variable, iterable |-> iterable]

ExprIndex(object, index) == [k |-> "Index", object |-> object, index |-> index]

ExprWhile(condition, body) == [body |-> body, k |-> "While", condition |-> condition]

ExprTransformer(name, params, body) ==
    [params |-> params, body |-> body, name |-> name, k |-> "Transformer"]

ExprApply(object, transformer, arguments) ==
    [k |-> "Apply", arguments |-> arguments, object |-> object,
     transformer |-> transformer]

ExprUse(path) == [k |-> "Use", path |-> path]

(***************************************************************************)
(* Canonical textual rendering, impl fmt::Display for Value.               *)
(***************************************************************************)
Digit(i) == <<"0", "1", "2", "3", "4", "5", "6", "7", "8", "9">>[i + 1]

\* the decimal digits of the natural number i
RECURSIVE NatDigits(_)
NatDigits(i) == IF i < 10 THEN <<Digit(i)>> ELSE Append(NatDigits(i \div 10), Digit(i % 10))

\* the last k decimal digits of the natural number i, zero padded
RECURSIVE FixedDigits(_, _)
FixedDigits(i, k) ==
    IF k = 0 THEN <<>> ELSE Append(FixedDigits(i \div 10, k - 1), Digit(i % 10))

\* d = 2^k for some k
RECURSIVE IsPow2(_)
IsPow2(d) == IF d = 1 THEN TRUE ELSE IF d % 2 # 0 THEN FALSE ELSE IsPow2(d \div 2)

RECURSIVE Log2(_)
Log2(d) == IF d <= 1 THEN 0 ELSE 1 + Log2(d \div 2)

RECURSIVE Pow(_, _)
Pow(b, e) == IF e = 0 THEN 1 ELSE b * Pow(b, e - 1)

\* the numbers the model covers: the dyadic rationals, which an f64 holds
\* exactly within the magnitudes used here and which print as a finite
\* decimal
Exact(v) == IsPow2(v.d)

\* f64's Display: integers print without a fraction, -3/4 prints as -0.75
NumberToString(v) ==
    LET a     == Abs(v.n)
        whole == NatDigits(a \div v.d)
        kk    == Log2(v.d)
        frac  == FixedDigits(((a % v.d) * Pow(10, kk)) \div v.d, kk)
        sign  == IF v.n < 0 THEN <<"-">> ELSE <<>>
    IN  IF v.d = 1 THEN sign \o whole ELSE sign \o whole \o <<".">> \o frac

RECURSIVE Display(_)
RECURSIVE DisplayElements(_, _)
Display(v) ==
    CASE v.t = "Number" -> NumberToString(v)
      [] v.t = "String" -> v.s
      [] v.t = "Boolean" -> IF v.b THEN <<"t", "r", "u", "e">> ELSE <<"f", "a", "l", "s", "e">>
      [] v.t = "Array" -> <<"[">> \o DisplayElements(v.a, 1) \o <<"]">>
      [] v.t = "Function" -> <<"<", "f", "u", "n", "c", "t", "i", "o", "n", ">">>
      [] v.t = "Transformer" ->
            <<"<", "t", "r", "a", "n", "s", "f", "o", "r", "m", "e", "r", ">">>
      [] v.t = "Nil" -> <<"n", "i", "l">>

DisplayElements(a, i) ==
    IF i > Len(a) THEN <<>>
    ELSE (IF i > 1 THEN <<",", " ">> ELSE <<>>) \o Display(a[i]) \o DisplayElements(a, i + 1)

(***************************************************************************)
(* Number arithmetic of evaluate_binary and the numeric casts.             *)
(***************************************************************************)
NumAdd(l, r) == Rat(l.n * r.d + r.n * l.d, l.d * r.d)

NumSub(l, r) == Rat(l.n * r.d - r.n * l.d, l.d * r.d)

NumMul(l, r) == Rat(l.n * r.n, l.d * r.d)

\* r # 0
NumDiv(l, r) == Rat(l.n * r.d, l.d * r.n)

\* a remainder with the sign of the dividend, as `l % r` gives
NumRemTruncated(l, r) ==
    LET m == (Abs(l.n) * r.d) % (Abs(r.n) * l.d)
    IN  Rat(IF l.n < 0 THEN -m ELSE m, l.d * r.d)

\* f64::rem_euclid, r # 0: the remainder in [0, |r|)
NumRemEuclid(l, r) == Rat((l.n * r.d) % (Abs(r.n) * l.d), l.d * r.d)

NumLess(l, r) == l.n * r.d < r.n * l.d

\* rounding toward zero
Trunc(v) == IF v.n >= 0 THEN v.n \div v.d ELSE -((-v.n) \div v.d)

\* `n as i32`: truncates and saturates at the bounds of i32 (the numbers of
\* the model stay within them)
AsI32(v) ==
    LET i == Trunc(v)
    IN  IF i > 2147483647 THEN 2147483647
        ELSE IF i < -2147483647 - 1 THEN -2147483647 - 1 ELSE i

\* `i as usize`: truncates and saturates, so every negative number gives 0
\* (the numbers of the model stay below usize::MAX)
AsUsize(v) ==
    LET i == Trunc(v)
    IN  IF i < 0 THEN 0 ELSE i

(***************************************************************************)
(* Results.  A Result<Value, String> together with the interpreter state   *)
(* the evaluation leaves behind.                                           *)
(***************************************************************************)
Ok(st, val) == [st |-> st, val |-> val, ok |-> TRUE, err |-> ""]

Err(st, msg) == [st |-> st, val |-> Nil, ok |-> FALSE, err |-> msg]

\* the errors that stand for a bound of the model, not for an error of the
\* program: the step budget is used up, or a number is not a dyadic rational
Cut == {"<fuel>", "<inexact>"}

\* a Number result, when the model covers it
OkNumber(st, v) == IF Exact(v) THEN Ok(st, v) ELSE Err(st, "<inexact>")

\* a ghost record of a completed operation appended to the log, with the
\* environment and the imported paths the operation leaves
LogEvent(r, ev) ==
    IF r.ok
    THEN [r EXCEPT !.st.log =
             Append(@, ev @@ [post |-> r.st.environment,
                              post_imported |-> r.st.imported_files,
                              post_loads |-> r.st.loads])]
    ELSE r

\* the operators of evaluate_binary applied to the operands' values
BinaryOp(operator, l, r, st) ==
    LET invalid == Err(st, "Invalid operands for operator")
        nums    == l.t = "Number" /\ r.t = "Number"
        bools   == l.t = "Boolean" /\ r.t = "Boolean"
    IN  CASE operator = "Plus" ->
               IF nums THEN OkNumber(st, NumAdd(l, r))
               ELSE IF l.t = "String" /\ r.t = "String" THEN Ok(st, Str(l.s \o r.s))
               ELSE IF l.t = "String" THEN Ok(st, Str(l.s \o Display(r)))
               ELSE IF r.t = "String" THEN Ok(st, Str(Display(l) \o r.s))
               ELSE IF l.t = "Array" /\ r.t = "Array" THEN Ok(st, Arr(l.a \o r.a))
               ELSE invalid
          [] operator = "Minus" -> IF nums THEN OkNumber(st, NumSub(l, r)) ELSE invalid
          [] operator = "Multiply" -> IF nums THEN OkNumber(st, NumMul(l, r)) ELSE invalid
          [] operator = "Divide" ->
               IF nums
               THEN IF r.n = 0 THEN Err(st, "Division by zero")
                    ELSE OkNumber(st, NumDiv(l, r))
               ELSE invalid
          [] operator = "Modulo" ->
               IF nums
               THEN IF r.n = 0 THEN Err(st, "Modulo by zero")
                    ELSE OkNumber(st, NumRemEuclid(l, r))
               ELSE invalid
          [] operator = "LessThan" ->
               IF nums THEN Ok(st, Bool(NumLess(l, r))) ELSE invalid
          [] operator = "LessThanEqual" ->
               IF nums THEN Ok(st, Bool(~NumLess(r, l))) ELSE invalid
          [] operator = "GreaterThan" ->
               IF nums THEN Ok(st, Bool(NumLess(r, l))) ELSE invalid
          [] operator = "GreaterThanEqual" ->
               IF nums THEN Ok(st, Bool(~NumLess(l, r))) ELSE invalid
          [] operator = "EqualEqual" ->
               IF (l.t = r.t) /\ l.t \in {"Number", "String", "Boolean"}
               THEN Ok(st, Bool(l = r))
               ELSE Ok(st, Bool(l.t = "Nil" /\ r.t = "Nil"))
          [] operator = "BangEqual" ->
               IF (l.t = r.t) /\ l.t \in {"Number", "String", "Boolean"}
               THEN Ok(st, Bool(l # r))
               ELSE Ok(st, Bool(~(l.t = "Nil" /\ r.t = "Nil")))
          [] operator = "And" -> IF bools THEN Ok(st, Bool(l.b /\ r.b)) ELSE invalid
          [] operator = "Or" -> IF bools THEN Ok(st, Bool(l.b \/ r.b)) ELSE invalid
          [] OTHER -> Err(st, "Unknown operator")

\* the operators of evaluate_unary applied to the operand's value
UnaryOp(operator, v, st) ==
    CASE operator = "Minus" ->
           IF v.t = "Number" THEN Ok(st, Rat(-v.n, v.d))
           ELSE Err(st, "Invalid operand for unary operator")
      [] operator = "Not" ->
           IF v.t = "Boolean" THEN Ok(st, Bool(~v.b))
           ELSE Err(st, "Invalid operand for unary operator")
      [] OTHER -> Err(st, "Unknown unary operator")

(***************************************************************************)
(* The built-in transformers of Expr::Apply.                               *)
(***************************************************************************)
Digits == {"0", "1", "2", "3", "4", "5", "6", "7", "8", "9"}

DigitVal(c) == CHOOSE i \in 0..9 : Digit(i) = c

\* the natural number written by a sequence of digits
RECURSIVE DigitsToNat(_)
DigitsToNat(s) ==
    IF s = <<>> THEN 0 ELSE 10 * DigitsToNat(SubSeq(s, 1, Len(s) - 1)) + DigitVal(s[Len(s)])

\* position of the first "." of s, Len(s) + 1 when it has none
RECURSIVE DotPos(_, _)
DotPos(s, i) == IF i > Len(s) THEN i ELSE IF s[i] = "." THEN i ELSE DotPos(s, i + 1)

\* str::parse::<f64> on the strings of digits, sign and ".": an optional
\* sign, then digits with at most one "." and at least one digit.  (The
\* exponent, inf and nan forms need letters, which no string of the model
\* that reaches a parse contains besides the ones that fail to parse.)
ParseF64(s) ==
    LET signed == s # <<>> /\ s[1] \in {"+", "-"}
        body   == IF signed THEN SubSeq(s, 2, Len(s)) ELSE s
        dot    == DotPos(body, 1)
        whole  == SubSeq(body, 1, dot - 1)
        frac   == SubSeq(body, dot + 1, Len(body))
        wellformed ==
            /\ \A i \in 1..Len(whole) : whole[i] \in Digits
            /\ \A i \in 1..Len(frac) : frac[i] \in Digits
            /\ Len(whole) + Len(frac) > 0
        mag == Rat(DigitsToNat(whole) * Pow(10, Len(frac)) + DigitsToNat(frac),
                   Pow(10, Len(frac)))
    IN  IF wellformed
        THEN [val |-> IF signed /\ s[1] = "-" THEN Rat(-mag.n, mag.d) ELSE mag,
              ok |-> TRUE]
        ELSE [val |-> Num(0), ok |-> FALSE]

StrTrue == <<"t", "r", "u", "e">>

StrFalse == <<"f", "a", "l", "s", "e">>

StrNull == <<"n", "u", "l", "l">>

\* "to_string": an array is joined with ", " and without brackets, its
\* String elements raw and the others through Display
RECURSIVE ToStringElements(_, _)
ToStringElements(a, i) ==
    IF i > Len(a) THEN <<>>
    ELSE (IF i > 1 THEN <<",", " ">> ELSE <<>>)
         \o (IF a[i].t = "String" THEN a[i].s ELSE Display(a[i]))
         \o ToStringElements(a, i + 1)

ApplyToString(v) ==
    CASE v.t = "Number" -> Str(NumberToString(v))
      [] v.t = "String" -> Str(v.s)
      [] v.t = "Boolean" -> Str(IF v.b THEN StrTrue ELSE StrFalse)
      [] v.t = "Array" -> Str(ToStringElements(v.a, 1))
      [] v.t = "Function" -> Str(<<"[", "F", "u", "n", "c", "t", "i", "o", "n", "]">>)
      [] v.t = "Transformer" ->
            Str(<<"[", "T", "r", "a", "n", "s", "f", "o", "r", "m", "e", "r", "]">>)
      [] v.t = "Nil" -> Str(<<"n", "i", "l">>)

\* "to_number"
ApplyToNumber(v) ==
    CASE v.t = "Number" -> v
      [] v.t = "String" ->
            IF ParseF64(v.s).ok THEN ParseF64(v.s).val
            ELSE IF v.s = StrTrue THEN Num(1)
            ELSE IF v.s = StrFalse THEN Num(0)
            ELSE Num(0)
      [] v.t = "Boolean" -> IF v.b THEN Num(1) ELSE Num(0)
      [] OTHER -> Num(0)

\* "to_bool"
ApplyToBool(v) ==
    CASE v.t = "Number" -> Bool(v.n # 0)
      [] v.t = "String" -> Bool(~(v.s = <<>> \/ v.s = StrFalse \/ v.s = <<"0">>))
      [] v.t = "Boolean" -> v
      [] v.t = "Array" -> Bool(v.a # <<>>)
      [] v.t = "Function" -> Bool(TRUE)
      [] v.t = "Transformer" -> Bool(TRUE)
      [] v.t = "Nil" -> Bool(FALSE)

\* "to_array"
ApplyToArray(v) == IF v.t = "Array" THEN v ELSE Arr(<<v>>)

\* "parse_number"
ApplyParseNumber(v) ==
    CASE v.t = "String" -> IF ParseF64(v.s).ok THEN ParseF64(v.s).val ELSE Num(0)
      [] v.t = "Number" -> v
      [] OTHER -> Num(0)

\* "parse_bool"
ApplyParseBool(v) ==
    CASE v.t = "String" ->
            Bool(v.s = StrTrue \/ v.s = <<"1">> \/ v.s = <<"y", "e", "s">>)
      [] v.t = "Boolean" -> v
      [] v.t = "Number" -> Bool(v.n # 0)
      [] v.t = "Array" -> Bool(v.a # <<>>)
      [] v.t = "Function" -> Bool(TRUE)
      [] v.t = "Transformer" -> Bool(TRUE)
      [] v.t = "Nil" -> Bool(FALSE)

\* one element of an array under "to_json"
JsonElement(v) ==
    CASE v.t = "String" -> <<"\"">> \o v.s \o <<"\"">>
      [] v.t = "Number" -> NumberToString(v)
      [] v.t = "Boolean" -> IF v.b THEN StrTrue ELSE StrFalse
      [] v.t = "Array" -> <<"[", ".", ".", ".", "]">>
      [] OTHER -> StrNull

RECURSIVE JsonElements(_, _)
JsonElements(a, i) ==
    IF i > Len(a) THEN <<>>
    ELSE (IF i > 1 THEN <<",">> ELSE <<>>) \o JsonElement(a[i]) \o JsonElements(a, i + 1)

\* "to_json"
ApplyToJson(v) ==
    CASE v.t = "String" -> Str(<<"\"">> \o v.s \o <<"\"">>)
      [] v.t = "Number" -> Str(NumberToString(v))
      [] v.t = "Boolean" -> Str(IF v.b THEN StrTrue ELSE StrFalse)
      [] v.t = "Array" -> Str(<<"[">> \o JsonElements(v.a, 1) \o <<"]">>)
      [] OTHER -> Str(StrNull)

BuiltinTransformers ==
    {"to_string", "to_number", "to_bool", "to_array", "parse_number", "parse_bool",
     "to_json"}

\* the transformer names matched before the environment is consulted
BuiltinTransformer(transformer, v) ==
    CASE transformer = "to_string" -> ApplyToString(v)
      [] transformer = "to_number" -> ApplyToNumber(v)
      [] transformer = "to_bool" -> ApplyToBool(v)
      [] transformer = "to_array" -> ApplyToArray(v)
      [] transformer = "parse_number" -> ApplyParseNumber(v)
      [] transformer = "parse_bool" -> ApplyParseBool(v)
      [] transformer = "to_json" -> ApplyToJson(v)

(***************************************************************************)
(* The evaluator, Interpreter::evaluate.  It works on a record st of       *)
(*   environment, imported_files   the fields of the Interpreter           *)
(*   stdout, stdin                 the process's output and pending input  *)
(*   fuel                          the remaining step budget of the model  *)
(*   log, loads                    ghost history: the operations completed *)
(*                                 in this statement, and the paths whose  *)
(*                                 file a `use` has evaluated in this run  *)
(* and returns a result record (Ok / Err) holding the state left behind.   *)
(* An `?` that returns early leaves the state as it was at that point.     *)
(***************************************************************************)
RECURSIVE Evaluate(_, _)
RECURSIVE EvaluateBinary(_, _, _, _)
RECURSIVE EvaluateElements(_, _, _, _)
RECURSIVE BindParams(_, _, _, _, _)
RECURSIVE ExecBody(_, _, _, _)
RECURSIVE ForLoop(_, _, _, _, _, _)
RECURSIVE WhileLoop(_, _, _, _)
RECURSIVE Call(_, _, _)
RECURSIVE Apply(_, _, _, _)
RECURSIVE Use(_, _)

\* Parser::parse's result for a file of the given top-level statements
ParseResult(statements) ==
    IF Len(statements) = 1 THEN statements[1] ELSE ExprBlock(statements)

\* an evaluate_binary whose `and` and `or` leave the right operand alone
\* when the left one decides the result
EvaluateBinaryShortCircuit(left, operator, right, st) ==
    LET l == Evaluate(left, st)
    IN  IF ~l.ok THEN l
        ELSE IF (operator = "And" /\ l.val = Bool(FALSE))
                \/ (operator = "Or" /\ l.val = Bool(TRUE))
        THEN Ok(l.st, l.val)
        ELSE LET r == Evaluate(right, l.st)
             IN  IF ~r.ok THEN r ELSE BinaryOp(operator, l.val, r.val, r.st)

\* Interpreter::evaluate_binary: both operands, the left one first, then the
\* operator
EvaluateBinary(left, operator, right, st) ==
    LET l == Evaluate(left, st)
    IN  IF ~l.ok THEN l
        ELSE LET r == Evaluate(right, l.st)
             IN  IF ~r.ok THEN r ELSE BinaryOp(operator, l.val, r.val, r.st)

\* a loop over the elements that carries on after an element has failed
EvaluateElementsSkipsError(elements, i, st, values) ==
    IF i > Len(elements) THEN Ok(st, Arr(values))
    ELSE LET r == Evaluate(elements[i], st)
         IN  IF ~r.ok THEN EvaluateElements(elements, i + 1, r.st, values)
             ELSE EvaluateElements(elements, i + 1, r.st, Append(values, r.val))

\* Expr::Array and Expr::Block: the elements in order, up to the first error
EvaluateElements(elements, i, st, values) ==
    IF i > Len(elements) THEN Ok(st, Arr(values))
    ELSE LET r == Evaluate(elements[i], st)
         IN  IF ~r.ok THEN r
             ELSE EvaluateElements(elements, i + 1, r.st, Append(values, r.val))

\* a binding that insists on as many arguments as parameters
BindParamsStrict(params, arguments, i, env, st) ==
    IF Len(arguments) # Len(params)
    THEN [env |-> env, st |-> st, ok |-> FALSE, err |-> "Wrong number of arguments"]
    ELSE IF i > Len(params) THEN [env |-> env, st |-> st, ok |-> TRUE, err |-> ""]
    ELSE LET r == Evaluate(arguments[i], st)
         IN  IF ~r.ok THEN [env |-> env, st |-> r.st, ok |-> FALSE, err |-> r.err]
             ELSE BindParams(params, arguments, i + 1,
                             EnvDefine(env, params[i], r.val), r.st)

\* "Define parameters": each argument is evaluated in the caller's current
\* state and defined in the callee's frame env; a missing one is Nil
BindParams(params, arguments, i, env, st) ==
    IF i > Len(params) THEN [env |-> env, st |-> st, ok |-> TRUE, err |-> ""]
    ELSE IF i <= Len(arguments)
    THEN LET r == Evaluate(arguments[i], st)
         IN  IF ~r.ok THEN [env |-> env, st |-> r.st, ok |-> FALSE, err |-> r.err]
             ELSE BindParams(params, arguments, i + 1,
                             EnvDefine(env, params[i], r.val), r.st)
    ELSE BindParams(params, arguments, i + 1, EnvDefine(env, params[i], Nil), st)

\* a restore that pops the callee's frame and keeps, instead of the saved
\* environment, the snapshot the body has worked on
RestoreEnvironmentPopsFrame(st, old_env) == [st EXCEPT !.environment = Tail(@)]

\* "Restore the old environment" of call and apply
RestoreEnvironment(st, old_env) == [st EXCEPT !.environment = old_env]

\* an apply that returns the result without rebinding the object
UpdateObjectSkipped(env, object, value) == env

\* an apply that also rebinds the variable at the root of a chain of applies
UpdateObjectRebindsRoot(env, object, value) ==
    IF object.k = "Variable" THEN EnvAssign(env, object.name, value)
    ELSE IF object.k = "Apply" /\ object.object.k = "Variable"
    THEN EnvAssign(env, object.object.name, value)
    ELSE env

\* "Update the original object with the result": only a bare Variable is
\* rebound, by Environment::assign
UpdateObject(env, object, value) ==
    IF object.k = "Variable" THEN EnvAssign(env, object.name, value) ELSE env

\* an iteration that binds the loop variable in the current frame and then
\* opens the fresh frame
EnterIterationBindsOutside(env, variable, element) ==
    <<EmptyFrame>> \o EnvDefine(env, variable, element)

\* the environment of one `for` iteration: a fresh frame around a clone of
\* the current chain, binding the loop variable
EnterIteration(env, variable, element) ==
    EnvDefine(NewWithEnclosing(env), variable, element)

\* an iteration that leaves its frame on the chain
LeaveIterationKeepsFrame(env) == env

\* the environment after one iteration: the enclosing chain of the current
\* one, with what the body did to it
LeaveIteration(env) == Tail(env)

WithRan(r, ran) == [st |-> r.st, val |-> r.val, ok |-> r.ok, err |-> r.err, ran |-> ran]

\* a body loop that never stops at a Return
ExecBodyNoBreak(body, i, st, result) ==
    IF i > Len(body) THEN WithRan(Ok(st, result), i - 1)
    ELSE LET r == Evaluate(body[i], st)
         IN  IF ~r.ok THEN WithRan(r, i)
             ELSE ExecBody(body, i + 1, r.st, r.val)

\* a body loop that also stops after an `if` one of whose branches is a
\* Return node
ExecBodyIfReturns(body, i, st, result) ==
    IF i > Len(body) THEN WithRan(Ok(st, result), i - 1)
    ELSE LET r == Evaluate(body[i], st)
         IN  IF ~r.ok THEN WithRan(r, i)
             ELSE IF body[i].k = "Return"
                     \/ (body[i].k = "If" /\ body[i].then_branch.k = "Return")
             THEN WithRan(r, i)
             ELSE ExecBody(body, i + 1, r.st, r.val)

\* the body loop of a call or apply: stops after a body expression that is
\* itself a Return node; ran is the number of body expressions evaluated
ExecBody(body, i, st, result) ==
    IF i > Len(body) THEN WithRan(Ok(st, result), i - 1)
    ELSE LET r == Evaluate(body[i], st)
         IN  IF ~r.ok THEN WithRan(r, i)
             ELSE IF body[i].k = "Return" THEN WithRan(r, i)
             ELSE ExecBody(body, i + 1, r.st, r.val)

\* the ghost record of one completed iteration of a `for`
IterationEvent(variable, elements, i, st) ==
    [elements |-> elements, variable |-> variable, index |-> i,
     e |-> "iteration", element |-> elements[i], entry |-> st.environment]

\* a loop that leaves out the last element
ForLoopSkipsLast(variable, elements, i, body, st, result) ==
    IF i >= Len(elements) THEN Ok(st, result)
    ELSE LET r == Evaluate(body, [st EXCEPT !.environment =
                                     EnterIteration(@, variable, elements[i])])
         IN  IF ~r.ok THEN r
             ELSE LET left == LogEvent(Ok([r.st EXCEPT !.environment =
                                              LeaveIteration(@)], r.val),
                                       IterationEvent(variable, elements, i, st))
                  IN  ForLoop(variable, elements, i + 1, body, left.st, left.val)

\* the iterations of Expr::For over the evaluated elements: `for element in
\* elements` runs over the vector the iterable evaluated to
ForLoop(variable, elements, i, body, st, result) ==
    IF i > Len(elements) THEN Ok(st, result)
    ELSE LET r == Evaluate(body, [st EXCEPT !.environment =
                                     EnterIteration(@, variable, elements[i])])
         IN  IF ~r.ok THEN r
             ELSE LET left == LogEvent(Ok([r.st EXCEPT !.environment =
                                              LeaveIteration(@)], r.val),
                                       IterationEvent(variable, elements, i, st))
                  IN  ForLoop(variable, elements, i + 1, body, left.st, left.val)

\* a while loop that gives every iteration a frame of its own, as `for` does
WhileLoopScoped(condition, body, st, n) ==
    IF st.fuel = 0 THEN Err(st, "<fuel>")
    ELSE LET c == Evaluate(condition, st)
         IN  IF ~c.ok THEN c
             ELSE IF c.val = Bool(TRUE)
             THEN LET b == Evaluate(body, [c.st EXCEPT !.environment =
                                              NewWithEnclosing(@)])
                  IN  IF ~b.ok THEN b
                      ELSE WhileLoop(condition, body,
                                     [b.st EXCEPT !.fuel = @ - 1,
                                                  !.environment = Tail(@)], n + 1)
             ELSE IF c.val = Bool(FALSE) THEN Ok(c.st, Num(n))
             ELSE Err(c.st, "Condition must be a boolean value")

\* the loop of Expr::While; n counts the iterations done
WhileLoop(condition, body, st, n) ==
    IF st.fuel = 0 THEN Err(st, "<fuel>")
    ELSE LET c == Evaluate(condition, st)
         IN  IF ~c.ok THEN c
             ELSE IF c.val = Bool(TRUE)
             THEN LET b == Evaluate(body, c.st)
                  IN  IF ~b.ok THEN b
                      ELSE WhileLoop(condition, body,
                                     [b.st EXCEPT !.fuel = @ - 1], n + 1)
             ELSE IF c.val = Bool(FALSE) THEN Ok(c.st, Num(n))
             ELSE Err(c.st, "Condition must be a boolean value")

\* str::trim_end
RECURSIVE TrimEnd(_)
TrimEnd(s) ==
    IF s # <<>> /\ s[Len(s)] \in {" ", "\t", "\r", "\n"}
    THEN TrimEnd(SubSeq(s, 1, Len(s) - 1))
    ELSE s

\* a range that includes its end
RangeElementsInclusive(start, end) == [i \in 1..(end - start + 1) |-> Num(start + i - 1)]

\* `for i in start..end { elements.push(Value::Number(i as f64)) }`
RangeElements(start, end) == [i \in 1..(end - start) |-> Num(start + i - 1)]

\* a callee that sees the global frames only, not the caller's local ones
CalleeScopeGlobal(env) == SubSeq(env, Len(env) - 1, Len(env))

\* the chain the frame of a call encloses: a clone of the environment the
\* call is made in
CalleeScope(env) == env

\* a callee whose frame encloses the environment the arguments have left
CalleeEnvironmentAfterArguments(env, old_env) == <<env[1]>> \o old_env

\* "Set the new environment": env, the frame of the parameters around the
\* clone taken before the arguments were evaluated; old_env, saved after
\* them, is not part of it
CalleeEnvironment(env, old_env) == env

\* Interpreter::call
Call(callee, arguments, st) ==
    IF callee = "print"
    THEN IF Len(arguments) # 1 THEN Err(st, "print() takes exactly 1 argument")
         ELSE LET r == Evaluate(arguments[1], st)
              IN  IF ~r.ok THEN r
                  ELSE Ok([r.st EXCEPT !.stdout = @ \o Display(r.val) \o <<"\n">>], Nil)
    ELSE IF callee = "input"
    THEN IF Len(arguments) # 1 THEN Err(st, "input() takes exactly 1 argument")
         ELSE LET r == Evaluate(arguments[1], st)
              IN  IF ~r.ok THEN r
                  ELSE IF r.val.t # "String"
                  THEN Err(r.st, "Argument to input() must be a string")
                  ELSE LET prompted == [r.st EXCEPT !.stdout = @ \o r.val.s]
                       IN  \* read_line returns the empty string at end of input
                           IF prompted.stdin = <<>> THEN Ok(prompted, Str(<<>>))
                           ELSE Ok([prompted EXCEPT !.stdin = Tail(@)],
                                   Str(TrimEnd(Head(prompted.stdin))))
    ELSE IF callee = "range"
    THEN IF Len(arguments) # 2 THEN Err(st, "range() takes exactly 2 arguments")
         ELSE LET r1 == Evaluate(arguments[1], st)
              IN  IF ~r1.ok THEN r1
                  ELSE IF r1.val.t # "Number"
                  THEN Err(r1.st, "First argument to range() must be a number")
                  ELSE LET r2 == Evaluate(arguments[2], r1.st)
                       IN  IF ~r2.ok THEN r2
                           ELSE IF r2.val.t # "Number"
                           THEN Err(r2.st, "Second argument to range() must be a number")
                           ELSE LET start == AsI32(r1.val)
                                    end   == AsI32(r2.val)
                                IN  IF end - start > r2.st.fuel THEN Err(r2.st, "<fuel>")
                                    ELSE Ok(r2.st, Arr(RangeElements(start, end)))
    ELSE IF EnvHas(st.environment, callee)
            /\ EnvGet(st.environment, callee).t = "Function"
    THEN IF st.fuel = 0 THEN Err(st, "<fuel>")
         ELSE
         LET function == EnvGet(st.environment, callee)
             \* the callee's frame encloses a clone taken before the arguments
             \* are evaluated
             bound == BindParams(function.params, arguments, 1,
                                 NewWithEnclosing(CalleeScope(st.environment)),
                                 [st EXCEPT !.fuel = @ - 1])
         IN  IF ~bound.ok THEN Err(bound.st, bound.err)
             ELSE LET old_env == bound.st.environment
                      start == CalleeEnvironment(bound.env, old_env)
                      b == ExecBody(function.body, 1,
                                    [bound.st EXCEPT !.environment = start], Nil)
                  IN  IF ~b.ok THEN Err(b.st, b.err)
                      ELSE LogEvent(Ok(RestoreEnvironment(b.st, old_env), b.val),
                                    [params |-> function.params, body |-> function.body,
                                     frame |-> bound.env[1],
                                     callee |-> callee,
                                     arguments |-> arguments, e |-> "call",
                                     val |-> b.val, old_env |-> old_env,
                                     ran |-> b.ran,
                                     entry |-> st.environment, start |-> start,
                                     inner |-> b.st.environment,
                                     out |-> SubSeq(b.st.stdout,
                                                    Len(bound.st.stdout) + 1,
                                                    Len(b.st.stdout))])
    ELSE Err(st, "Undefined function")

\* Expr::Apply once the object is evaluated: st is the state after it
Apply(object, transformer, arguments, r0) ==
    LET st == r0.st
        object_val == r0.val
    IN
    IF transformer \in BuiltinTransformers
    THEN LET v == BuiltinTransformer(transformer, object_val)
         IN  LogEvent(IF v.t = "Number" THEN OkNumber(st, v) ELSE Ok(st, v),
                      [object |-> object, transformer |-> transformer, e |-> "apply",
                       val |-> v, old_env |-> st.environment,
                       object_val |-> object_val, user |-> FALSE])
    ELSE IF EnvHas(st.environment, transformer)
            /\ EnvGet(st.environment, transformer).t = "Transformer"
    THEN IF st.fuel = 0 THEN Err(st, "<fuel>")
         ELSE
         LET function == EnvGet(st.environment, transformer)
             env == EnvDefine(NewWithEnclosing(st.environment), "applied", object_val)
             bound == BindParams(function.params, arguments, 1, env,
                                 [st EXCEPT !.fuel = @ - 1])
         IN  IF ~bound.ok THEN Err(bound.st, bound.err)
             ELSE LET old_env == bound.st.environment
                      b == ExecBody(function.body, 1,
                                    [bound.st EXCEPT !.environment = bound.env], Nil)
                      restored == RestoreEnvironment(b.st, old_env)
                      ev == [body |-> function.body, frame |-> bound.env[1], arguments |-> arguments,
                             object |-> object, transformer |-> transformer,
                             e |-> "apply", val |-> b.val,
                             old_env |-> old_env, ran |-> b.ran,
                             inner |-> b.st.environment,
                             out |-> SubSeq(b.st.stdout, Len(bound.st.stdout) + 1,
                                            Len(b.st.stdout)), object_val |-> object_val,
                             user |-> TRUE]
                  IN  IF ~b.ok THEN Err(b.st, b.err)
                      ELSE IF object.k = "Variable"
                              /\ ~EnvHas(restored.environment, object.name)
                      THEN Err(restored, "Undefined variable")
                      ELSE LogEvent(
                             Ok([restored EXCEPT !.environment =
                                    UpdateObject(@, object, b.val)], b.val), ev)
    ELSE Err(st, "Undefined transformer")

(***************************************************************************)
(* The files a `use` can name, as fs::read_to_string, Lexer::tokenize and  *)
(* Parser::parse deliver them: the top-level statements, or a syntax       *)
(* error.  A path outside the domain cannot be read.  All paths are        *)
(* relative to the base directory main() sets.                             *)
(***************************************************************************)
SourceFile(statements) == [statements |-> statements, syntax_error |-> FALSE]

Files ==
    [path \in {"a.m", "b.m", "c.m", "e.m", "s.m", "p.m", "q.m", "main.m", "d.m"} |->
        CASE path = "a.m" ->
               \* use "a.m"  ax = 1
               SourceFile(<<ExprUse("a.m"), ExprAssign("ax", ExprNumber(Num(1)))>>)
          [] path = "b.m" ->
               \* use "c.m"  bx = 1  x = 5
               SourceFile(<<ExprUse("c.m"), ExprAssign("bx", ExprNumber(Num(1))),
                            ExprAssign("x", ExprNumber(Num(5)))>>)
          [] path = "c.m" ->
               \* cx = 2
               SourceFile(<<ExprAssign("cx", ExprNumber(Num(2)))>>)
          [] path = "e.m" ->
               \* ex = 1  nowhere  print("after")
               SourceFile(<<ExprAssign("ex", ExprNumber(Num(1))),
                            ExprVariable("nowhere"),
                            ExprCall("print",
                                     <<ExprString(<<"a", "f", "t", "e", "r">>)>>)>>)
          [] path = "s.m" -> [statements |-> <<>>, syntax_error |-> TRUE]
          [] path = "p.m" ->
               \* use "q.m"  px = 1
               SourceFile(<<ExprUse("q.m"), ExprAssign("px", ExprNumber(Num(1)))>>)
          [] path = "q.m" ->
               \* use "p.m"  qx = 1
               SourceFile(<<ExprUse("p.m"), ExprAssign("qx", ExprNumber(Num(1)))>>)
          [] path = "main.m" ->
               \* the file main() runs by default: use "d.m"  x = 4
               SourceFile(<<ExprUse("d.m"), ExprAssign("x", ExprNumber(Num(4)))>>)
          [] path = "d.m" ->
               \* use "main.m"  dx = 1
               SourceFile(<<ExprUse("main.m"), ExprAssign("dx", ExprNumber(Num(1)))>>)]

\* Vec::contains
Contains(seq, x) == \E i \in 1..Len(seq) : seq[i] = x

\* a check that misses the path when it is the only one imported
AlreadyImportedAmongSeveral(imported_files, path) ==
    Len(imported_files) > 1 /\ Contains(imported_files, path)

\* "Check if file has already been imported"
AlreadyImported(imported_files, path) == Contains(imported_files, path)

\* a `use` that records the first import of a run without its path
RecordImportUnnamedFirst(imported_files, path) ==
    IF imported_files = <<>> THEN <<"">> ELSE Append(imported_files, path)

\* "Add to imported files list", before the file is read
RecordImport(imported_files, path) == Append(imported_files, path)

\* a merge that keeps the caller's binding when the name is already bound
MergeFrameKeepsCaller(env, frame) ==
    [env EXCEPT ![1] = [n \in (DOMAIN env[1]) \cup (DOMAIN frame) |->
                           IF n \in DOMAIN env[1] THEN env[1][n] ELSE frame[n]]]

\* "Copy all variables and functions": define every binding of the
\* sub-interpreter's innermost frame (get_variables) in the innermost frame
MergeFrame(env, frame) ==
    [env EXCEPT ![1] = [n \in (DOMAIN env[1]) \cup (DOMAIN frame) |->
                           IF n \in DOMAIN frame THEN frame[n] ELSE env[1][n]]]

\* Expr::Use
Use(path, st) ==
    IF AlreadyImported(st.imported_files, path)
    THEN LogEvent(Ok(st, Nil),
                  [path |-> path, e |-> "use", loads |-> st.loads,
                   entry |-> st.environment, out |-> <<>>,
                   skipped |-> TRUE, imported |-> st.imported_files,
                   chain |-> st.chain])
    ELSE LET recorded == [st EXCEPT !.imported_files = RecordImport(@, path)]
         IN  IF path \notin DOMAIN Files THEN Err(recorded, "Failed to read file")
             ELSE IF Files[path].syntax_error THEN Err(recorded, "Failed to parse file")
             ELSE IF st.fuel = 0 THEN Err(recorded, "<fuel>")
             ELSE LET ast == ParseResult(Files[path].statements)
                      \* file_interpreter: a clone of the environment and of
                      \* the imported list, both dropped afterwards; chain
                      \* is the ghost stack of the files being evaluated
                      r == Evaluate(ast, [recorded EXCEPT !.loads = Append(@, path),
                                                          !.chain = Append(@, path),
                                                          !.fuel = @ - 1])
                      back == [r.st EXCEPT !.environment = st.environment,
                                           !.imported_files = recorded.imported_files,
                                           !.chain = st.chain]
                  IN  IF r.ok
                      THEN LogEvent(
                             Ok([back EXCEPT !.environment =
                                    MergeFrame(st.environment, r.st.environment[1])],
                                Nil),
                             [path |-> path, e |-> "use", loads |-> st.loads,
                              entry |-> st.environment,
                              out |-> SubSeq(r.st.stdout, Len(st.stdout) + 1,
                                             Len(r.st.stdout)),
                              skipped |-> FALSE,
                              imported |-> st.imported_files,
                              chain |-> st.chain,
                              sub |-> r.st.environment,
                              sub_imported |-> r.st.imported_files])
                      ELSE Err(back, IF r.err \in Cut THEN r.err
                                     ELSE "Error evaluating file")

\* Interpreter::evaluate
Evaluate(expr, st) ==
    CASE expr.k = "Number" -> Ok(st, expr.v)
      [] expr.k = "String" -> Ok(st, Str(expr.s))
      [] expr.k = "Boolean" -> Ok(st, Bool(expr.b))
      [] expr.k = "Array" -> EvaluateElements(expr.elements, 1, st, <<>>)
      [] expr.k = "Variable" ->
            IF EnvHas(st.environment, expr.name)
            THEN Ok(st, EnvGet(st.environment, expr.name))
            ELSE Err(st, "Undefined variable")
      [] expr.k = "Binary" -> EvaluateBinary(expr.left, expr.operator, expr.right, st)
      [] expr.k = "Unary" ->
            LET r == Evaluate(expr.right, st)
            IN  IF ~r.ok THEN r ELSE UnaryOp(expr.operator, r.val, r.st)
      [] expr.k = "Assign" ->
            LET r == Evaluate(expr.value, st)
            IN  IF ~r.ok THEN r
                ELSE LogEvent(
                       IF EnvHas(r.st.environment, expr.name)
                       THEN Ok([r.st EXCEPT !.environment =
                                   EnvAssign(@, expr.name, r.val)], r.val)
                       ELSE Ok([r.st EXCEPT !.environment =
                                   EnvDefine(@, expr.name, r.val)], r.val),
                       [name |-> expr.name, e |-> "assign", val |-> r.val,
                        entry |-> r.st.environment])
      [] expr.k = "Call" -> Call(expr.callee, expr.arguments, st)
      [] expr.k = "Function" ->
            LET function == FunctionValue(expr.params, expr.body)
            IN  Ok([st EXCEPT !.environment = EnvDefine(@, expr.name, function)],
                   function)
      [] expr.k = "Return" ->
            IF expr.value = <<>> THEN Ok(st, Nil) ELSE Evaluate(expr.value[1], st)
      [] expr.k = "Index" ->
            LET o == Evaluate(expr.object, st)
            IN  IF ~o.ok THEN o
                ELSE LET i == Evaluate(expr.index, o.st)
                     IN  IF ~i.ok THEN i
                         ELSE IF o.val.t = "Array" /\ i.val.t = "Number"
                         THEN IF AsUsize(i.val) < Len(o.val.a)
                              THEN Ok(i.st, o.val.a[AsUsize(i.val) + 1])
                              ELSE Err(i.st, "Index out of bounds")
                         ELSE Err(i.st, "Cannot index non-array type")
      [] expr.k = "Block" ->
            \* the values are dropped but the last
            LET r == EvaluateElements(expr.expressions, 1, st, <<>>)
            IN  IF ~r.ok THEN r
                ELSE Ok(r.st, IF r.val.a = <<>> THEN Nil ELSE r.val.a[Len(r.val.a)])
      [] expr.k = "If" ->
            LET c == Evaluate(expr.condition, st)
            IN  IF ~c.ok THEN c
                ELSE IF c.val = Bool(TRUE) THEN Evaluate(expr.then_branch, c.st)
                ELSE IF c.val = Bool(FALSE)
                THEN IF expr.else_branch = <<>> THEN Ok(c.st, Nil)
                     ELSE Evaluate(expr.else_branch[1], c.st)
                ELSE Err(c.st, "Condition must be a boolean value")
      [] expr.k = "For" ->
            LET it == Evaluate(expr.iterable, st)
            IN  IF ~it.ok THEN it
                ELSE IF it.val.t \in {"Array", "String"}
                THEN LET elements ==
                             IF it.val.t = "Array" THEN it.val.a
                             ELSE [i \in 1..Len(it.val.s) |-> Str(<<it.val.s[i]>>)]
                         r == ForLoop(expr.variable, elements, 1, expr.body, it.st, Nil)
                     IN  LogEvent(r, [body |-> expr.body, elements |-> elements,
                                      variable |-> expr.variable, iterable |-> expr.iterable,
                                      e |-> "for",
                                      entry |-> it.st.environment,
                                      first |-> Len(it.st.log)])
                ELSE Err(it.st, "Cannot iterate over non-iterable value")
      [] expr.k = "While" ->
            LET r == WhileLoop(expr.condition, expr.body, st, 0)
            IN  IF ~r.ok THEN r
                ELSE LogEvent(Ok(r.st, Nil),
                              [body |-> expr.body, e |-> "while",
                               entry |-> st.environment,
                               iterations |-> r.val.n])
      [] expr.k = "Transformer" ->
            LET transformer == TransformerValue(expr.params, expr.body)
            IN  Ok([st EXCEPT !.environment = EnvDefine(@, expr.name, transformer)],
                   transformer)
      [] expr.k = "Apply" ->
            LET o == Evaluate(expr.object, st)
            IN  IF ~o.ok THEN o
                ELSE Apply(expr.object, expr.transformer, expr.arguments, o)
      [] expr.k = "Use" -> Use(expr.path, st)

(***************************************************************************)
(* The statements of the main program.  Identifiers and literals are the   *)
(* ones of the scenarios of the specification.                             *)
(***************************************************************************)
V(name) == ExprVariable(name)

N(i) == ExprNumber(Num(i))

\* x = 4    s = 0    i = 0    a = [1, 2]    a = "ab"
AssignStatements ==
    {ExprAssign("x", N(4)), ExprAssign("s", N(0)), ExprAssign("i", N(0)),
     ExprAssign("a", ExprArray(<<N(1), N(2)>>)),
     ExprAssign("a", ExprString(<<"a", "b">>))}

\* fn f(n) { if n < 2 { return 0 } return 1 }
FnF ==
    ExprFunction("f", <<"n">>,
        <<ExprIf(ExprBinary(V("n"), "LessThan", N(2)), ExprReturn(<<N(0)>>), <<>>),
          ExprReturn(<<N(1)>>)>>)

\* fn g(a) { y = a  x = 9  return y  print("late")  z = 1 }
FnG ==
    ExprFunction("g", <<"a">>,
        <<ExprAssign("y", V("a")), ExprAssign("x", N(9)), ExprReturn(<<V("y")>>),
          ExprCall("print", <<ExprString(<<"l", "a", "t", "e">>)>>),
          ExprAssign("z", N(1))>>)

\* fn h(n) { if n < 2 { return 10 } else { return 20 } }
FnH ==
    ExprFunction("h", <<"n">>,
        <<ExprIf(ExprBinary(V("n"), "LessThan", N(2)), ExprReturn(<<N(10)>>),
                 <<ExprReturn(<<N(20)>>)>>)>>)

\* fn u(bx) { use "b.m"  return; }
FnU == ExprFunction("u", <<"bx">>, <<ExprUse("b.m"), ExprReturn(<<>>)>>)

\* fn pair(a, b) { return [a, b] }
FnPair ==
    ExprFunction("pair", <<"a", "b">>, <<ExprReturn(<<ExprArray(<<V("a"), V("b")>>)>>)>>)

\* fn rd() { return x }
FnRd == ExprFunction("rd", <<>>, <<ExprReturn(<<V("x")>>)>>)

\* fn wrap(x) { return rd() }
FnWrap == ExprFunction("wrap", <<"x">>, <<ExprReturn(<<ExprCall("rd", <<>>)>>)>>)

\* print("after")
PrintAfter == ExprCall("print", <<ExprString(<<"a", "f", "t", "e", "r">>)>>)

\* fn bad() { print("in")  nowhere  print("after")  z = 1 }
FnBad ==
    ExprFunction("bad", <<>>,
        <<ExprCall("print", <<ExprString(<<"i", "n">>)>>), V("nowhere"), PrintAfter,
          ExprAssign("z", N(1))>>)

\* fn peek(a) { return x }
FnPeek == ExprFunction("peek", <<"a">>, <<ExprReturn(<<V("x")>>)>>)

FunctionStatements == {FnF, FnG, FnH, FnU, FnPair, FnRd, FnWrap, FnBad, FnPeek}

\* transformer square() { return applied * applied }
TrSquare ==
    ExprTransformer("square", <<>>,
        <<ExprReturn(<<ExprBinary(V("applied"), "Multiply", V("applied"))>>)>>)

\* transformer addn(k) { x = 99  applied + k }
TrAddn ==
    ExprTransformer("addn", <<"k">>,
        <<ExprAssign("x", N(99)), ExprBinary(V("applied"), "Plus", V("k"))>>)

\* transformer none() { }
TrNone == ExprTransformer("none", <<>>, <<>>)

TransformerStatements == {TrSquare, TrAddn, TrNone}

\* pair(1)    pair(pair(), 2, nowhere)
PairStatements ==
    {ExprCall("pair", <<N(1)>>),
     ExprCall("pair", <<ExprCall("pair", <<>>), N(2), V("nowhere")>>)}

\* peek(x = 5)
CallAssigns == ExprCall("peek", <<ExprAssign("x", N(5))>>)

\* f(1)  f(3)  h(1)  h(3)  g(5)  u(0)  print(x)  rd()  wrap(7)  bad()
CallStatements ==
    {ExprCall("f", <<N(1)>>), ExprCall("f", <<N(3)>>), ExprCall("h", <<N(1)>>),
     ExprCall("h", <<N(3)>>), ExprCall("g", <<N(5)>>), ExprCall("u", <<N(0)>>),
     ExprCall("print", <<V("x")>>), ExprCall("rd", <<>>), ExprCall("wrap", <<N(7)>>),
     ExprCall("bad", <<>>), CallAssigns}
    \cup PairStatements

\* x.to_number()  x.to_bool()  x.to_array()  x.parse_number()  x.parse_bool()
\* x.to_json()
BuiltinOnVariable ==
    {ExprApply(V("x"), transformer, <<>>) :
        transformer \in {"to_number", "to_bool", "to_array", "parse_number",
                         "parse_bool", "to_json"}}

\* x.square().square()
ApplyChained == ExprApply(ExprApply(V("x"), "square", <<>>), "square", <<>>)

\* 3.addn(1)    [3, x][1].square()    rd().square()    x.square().square()
ApplyOnExpression ==
    {ExprApply(N(3), "addn", <<N(1)>>),
     ExprApply(ExprIndex(ExprArray(<<N(3), V("x")>>), N(1)), "square", <<>>),
     ExprApply(ExprCall("rd", <<>>), "square", <<>>),
     ApplyChained}

\* x.square()  x.addn(1)  x.none()  x.to_string()
ApplyStatements ==
    {ExprApply(V("x"), "square", <<>>), ExprApply(V("x"), "addn", <<N(1)>>),
     ExprApply(V("x"), "none", <<>>), ExprApply(V("x"), "to_string", <<>>)}
    \cup BuiltinOnVariable \cup ApplyOnExpression

\* for i in range(1, 6) { s = s + i }
ForSum ==
    ExprFor("i", ExprCall("range", <<N(1), N(6)>>),
        ExprBlock(<<ExprAssign("s", ExprBinary(V("s"), "Plus", V("i")))>>))

\* for i in [1, 2] { t = i  i = 7 }
ForLocal ==
    ExprFor("i", ExprArray(<<N(1), N(2)>>),
        ExprBlock(<<ExprAssign("t", V("i")), ExprAssign("i", N(7))>>))

\* for c in "ab" { s = s + c }
ForChars ==
    ExprFor("c", ExprString(<<"a", "b">>),
        ExprBlock(<<ExprAssign("s", ExprBinary(V("s"), "Plus", V("c")))>>))

\* for j in [1, 2] { x.addn(j) }
ForApply ==
    ExprFor("j", ExprArray(<<N(1), N(2)>>),
        ExprBlock(<<ExprApply(V("x"), "addn", <<V("j")>>)>>))

\* for k in [1, 2] { print(k)  nowhere  z = 1  print("after") }
ForFails ==
    ExprFor("k", ExprArray(<<N(1), N(2)>>),
        ExprBlock(<<ExprCall("print", <<V("k")>>), V("nowhere"), ExprAssign("z", N(1)),
                    PrintAfter>>))

\* for x in [1, 2] { rd() }
ForRd == ExprFor("x", ExprArray(<<N(1), N(2)>>), ExprBlock(<<ExprCall("rd", <<>>)>>))

\* for x in a { a = a + [x] }
ForGrow ==
    ExprFor("x", V("a"),
        ExprBlock(<<ExprAssign("a", ExprBinary(V("a"), "Plus", ExprArray(<<V("x")>>)))>>))

ForStatements == {ForSum, ForLocal, ForChars, ForApply, ForFails, ForRd, ForGrow}

\* while i < 3 { i = i + 1  w = i }
WhileCount ==
    ExprWhile(ExprBinary(V("i"), "LessThan", N(3)),
        ExprBlock(<<ExprAssign("i", ExprBinary(V("i"), "Plus", N(1))),
                    ExprAssign("w", V("i"))>>))

\* while true { z = [1, nowhere, print("after")]  print("after") }
WhileFails ==
    ExprWhile(ExprBoolean(TRUE),
        ExprBlock(<<ExprAssign("z", ExprArray(<<N(1), V("nowhere"), PrintAfter>>)),
                    PrintAfter>>))

WhileStatements == {WhileCount, WhileFails}

\* if true { nowhere  z = 1  print("after") }
IfFails ==
    ExprIf(ExprBoolean(TRUE),
           ExprBlock(<<V("nowhere"), ExprAssign("z", N(1)), PrintAfter>>), <<>>)

\* if x < 5 { x = 5 } else { q = 1 }
IfStatements ==
    {ExprIf(ExprBinary(V("x"), "LessThan", N(5)), ExprAssign("x", N(5)),
            <<ExprAssign("q", N(1))>>),
     IfFails}

\* the paths a `use` of the program or of a file names
Paths == (DOMAIN Files) \cup {"missing.m"}

UseStatements == {ExprUse(path) : path \in Paths}

\* the lines stdin can deliver to input()
InputLines == {<<"7">>, <<"h", "i", " ", "\n">>}

(***************************************************************************)
(* The lexer (src/src/lexer.rs, src/src/token.rs).  A text is the sequence *)
(* of the characters of the one line process_file and Expr::Use hand to    *)
(* the lexer; a Token is its TokenType and its literal, a sequence of      *)
(* characters.  The characters are ASCII: char::is_alphanumeric is the     *)
(* letters and digits below.                                               *)
(***************************************************************************)
Token(token_type, literal) == [token_type |-> token_type, literal |-> literal]

Whitespace == {" ", "\t", "\r", "\n"}

Letters ==
    {"a", "b", "c", "d", "e", "f", "g", "h", "i", "j", "k", "l", "m", "n", "o", "p",
     "q", "r", "s", "t", "u", "v", "w", "x", "y", "z", "A", "B", "C", "D", "E", "F",
     "G", "H", "I", "J", "K", "L", "M", "N", "O", "P", "Q", "R", "S", "T", "U", "V",
     "W", "X", "Y", "Z"}

\* "Check if it's a keyword"
KeywordType(identifier) ==
    CASE identifier = <<"f", "n">> -> "Fn"
      [] identifier = <<"r", "e", "t", "u", "r", "n">> -> "Return"
      [] identifier = <<"t", "r", "u", "e">> -> "True"
      [] identifier = <<"f", "a", "l", "s", "e">> -> "False"
      [] identifier = <<"i", "f">> -> "If"
      [] identifier = <<"e", "l", "s", "e">> -> "Else"
      [] identifier = <<"f", "o", "r">> -> "For"
      [] identifier = <<"i", "n">> -> "In"
      [] identifier = <<"w", "h", "i", "l", "e">> -> "While"
      [] identifier = <<"t", "r", "a", "n", "s", "f", "o", "r", "m", "e", "r">> ->
            "Transformer"
      [] identifier = <<"a", "n", "d">> -> "And"
      [] identifier = <<"o", "r">> -> "Or"
      [] identifier = <<"n", "o", "t">> -> "Not"
      [] identifier = <<"u", "s", "e">> -> "Use"
      [] OTHER -> "Identifier"

\* the single characters that are a token of their own
Punctuation ==
    [c \in {"+", "-", "*", "%", "(", ")", "[", "]", "{", "}", ",", ";", "."} |->
        CASE c = "+" -> "Plus" [] c = "-" -> "Minus" [] c = "*" -> "Multiply"
          [] c = "%" -> "Modulo" [] c = "(" -> "LeftParen" [] c = ")" -> "RightParen"
          [] c = "[" -> "LeftBracket" [] c = "]" -> "RightBracket"
          [] c = "{" -> "LeftBrace" [] c = "}" -> "RightBrace" [] c = "," -> "Comma"
          [] c = ";" -> "Semicolon" [] c = "." -> "Dot"]

\* the characters that form a two-character token when "=" follows
Relational ==
    [c \in {"<", ">", "="} |->
        CASE c = "<" -> <<"LessThan", "LessThanEqual">>
          [] c = ">" -> <<"GreaterThan", "GreaterThanEqual">>
          [] c = "=" -> <<"Equal", "EqualEqual">>]

\* the first position from i on whose character is not in set, Len + 1 when
\* there is none: `while let Some(&next_c) = chars.peek()` over a class
RECURSIVE SkipWhile(_, _, _)
SkipWhile(line, i, set) ==
    IF i <= Len(line) /\ line[i] \in set THEN SkipWhile(line, i + 1, set) ELSE i

\* the first position from i on whose character is c, Len + 1 when there is
\* none
RECURSIVE Find(_, _, _)
Find(line, i, c) ==
    IF i <= Len(line) /\ line[i] # c THEN Find(line, i + 1, c) ELSE i

\* a lexer that makes a token of a character it does not know
UnrecognizedIsToken(tokens, c) == Append(tokens, Token("Identifier", <<c>>))

\* "Ignore unrecognized characters", and "Just skip the character for now"
\* of a "!" that no "=" follows
Unrecognized(tokens, c) == tokens

\* the loop `while let Some(c) = chars.next()` from position i on
RECURSIVE LexFrom(_, _, _)
LexFrom(line, i, tokens) ==
    IF i > Len(line) THEN tokens
    ELSE LET c == line[i]
             followed == i < Len(line) /\ line[i + 1] = "="
         IN  CASE c \in Whitespace -> LexFrom(line, i + 1, tokens)
               [] c \in Digits ->
                     LET j == SkipWhile(line, i + 1, Digits \cup {"."})
                     IN  LexFrom(line, j,
                                 Append(tokens, Token("Number", SubSeq(line, i, j - 1))))
               [] c = "\"" ->
                     \* up to the closing quote, or to the end of the text
                     LET j == Find(line, i + 1, "\"")
                     IN  LexFrom(line, j + 1,
                                 Append(tokens,
                                        Token("String", SubSeq(line, i + 1, j - 1))))
               [] c \in Letters \cup {"_"} ->
                     LET j == SkipWhile(line, i + 1, Letters \cup Digits \cup {"_"})
                         identifier == SubSeq(line, i, j - 1)
                     IN  LexFrom(line, j,
                                 Append(tokens,
                                        Token(KeywordType(identifier), identifier)))
               [] c = "/" ->
                     IF i < Len(line) /\ line[i + 1] = "/"
                     THEN \* a comment: the rest of the line and its "\n"
                          LexFrom(line, Find(line, i + 2, "\n") + 1, tokens)
                     ELSE LexFrom(line, i + 1, Append(tokens, Token("Divide", <<c>>)))
               [] c \in DOMAIN Relational ->
                     IF followed
                     THEN LexFrom(line, i + 2,
                                  Append(tokens, Token(Relational[c][2], <<c, "=">>)))
                     ELSE LexFrom(line, i + 1,
                                  Append(tokens, Token(Relational[c][1], <<c>>)))
               [] c = "!" ->
                     IF followed
                     THEN LexFrom(line, i + 2,
                                  Append(tokens, Token("BangEqual", <<"!", "=">>)))
                     ELSE LexFrom(line, i + 1, Unrecognized(tokens, c))
               [] c \in DOMAIN Punctuation ->
                     LexFrom(line, i + 1, Append(tokens, Token(Punctuation[c], <<c>>)))
               [] OTHER -> LexFrom(line, i + 1, Unrecognized(tokens, c))

\* Lexer::lex: the tokens of the line, then "Add EOF token"
Lex(line) == Append(LexFrom(line, 1, <<>>), Token("EOF", <<>>))

(***************************************************************************)
(* The parser (src/src/parser.rs).  p is the Parser, its tokens and the    *)
(* index current; a function of the parser yields the Parser it leaves     *)
(* and its Result: the Expr (or the Vec<Expr>) of an Ok, the message of an *)
(* Err, or a panic, which ends the process.  Every `?` hands an Err, and   *)
(* the unwinding a panic, to the caller.                                   *)
(***************************************************************************)
Parser(tokens) == [tokens |-> tokens, current |-> 0]

Parsed(p, expr) == [ok |-> TRUE, err |-> "", expr |-> expr, p |-> p, panic |-> FALSE]

ParseError(p, message) ==
    [ok |-> FALSE, err |-> message, expr |-> <<>>, p |-> p, panic |-> FALSE]

\* Result::unwrap on an Err
Panic(p) ==
    [ok |-> FALSE, err |-> "called Result::unwrap() on an Err value", expr |-> <<>>,
     p |-> p, panic |-> TRUE]

Peek(p) == p.tokens[p.current + 1]

IsAtEnd(p) == Peek(p).token_type = "EOF"

Check(p, token_type) == ~IsAtEnd(p) /\ Peek(p).token_type = token_type

Advance(p) == IF IsAtEnd(p) THEN p ELSE [p EXCEPT !.current = @ + 1]

\* whether match_tokens finds one of the types, and the Parser it leaves
Matches(p, types) == \E token_type \in types : Check(p, token_type)

MatchTokens(p, types) == IF Matches(p, types) THEN Advance(p) ELSE p

\* the String of a literal
RECURSIVE Name(_)
Name(literal) == IF literal = <<>> THEN "" ELSE Head(literal) \o Name(Tail(literal))

\* the operators each level of binary operators matches
Operators ==
    [level \in {"logical_or", "logical_and", "equality", "comparison", "term", "factor"} |->
        CASE level = "logical_or" -> {"Or"}
          [] level = "logical_and" -> {"And"}
          [] level = "equality" -> {"EqualEqual", "BangEqual"}
          [] level = "comparison" ->
                {"LessThan", "LessThanEqual", "GreaterThan", "GreaterThanEqual"}
          [] level = "term" -> {"Plus", "Minus"}
          [] level = "factor" -> {"Multiply", "Divide", "Modulo"}]

\* the `?` after a call of consume: the token after the result r is taken and
\* r's value kept, or the message is the Err
Expect(r, token_type, message) ==
    IF ~r.ok THEN r
    ELSE IF Check(r.p, token_type) THEN Parsed(Advance(r.p), r.expr)
    ELSE ParseError(r.p, message)

RECURSIVE Statement(_)
RECURSIVE Expression(_)
RECURSIVE BinaryLoop(_, _)
RECURSIVE Operand(_, _)
RECURSIVE Assignment(_)
RECURSIVE Unary(_)
RECURSIVE CallLoop(_)
RECURSIVE ExpressionList(_, _)
RECURSIVE Primary(_)
RECURSIVE Body(_, _)
RECURSIVE ReturnStatement(_)

\* Expr::Binary of a level's loop, once the right operand is parsed
BinaryOf(left, operator, right) ==
    IF ~right.ok THEN right
    ELSE Parsed(right.p, ExprBinary(left.expr, operator, right.expr))

\* `while self.match_tokens(operators) { right = operand()?; expr = Binary }`
\* of a level, after its left operand
BinaryLoop(level, left) ==
    IF ~left.ok THEN left
    ELSE IF Matches(left.p, Operators[level])
    THEN BinaryLoop(level, BinaryOf(left, Peek(left.p).token_type,
                                    Operand(level, Advance(left.p))))
    ELSE left

\* Parser::logical_or
LogicalOr(p) == BinaryLoop("logical_or", Operand("logical_or", p))

\* Parser::logical_and
LogicalAnd(p) == BinaryLoop("logical_and", Operand("logical_and", p))

\* Parser::equality
Equality(p) == BinaryLoop("equality", Operand("equality", p))

\* Parser::comparison
Comparison(p) == BinaryLoop("comparison", Operand("comparison", p))

\* Parser::term
Term(p) == BinaryLoop("term", Operand("term", p))

\* Parser::factor
Factor(p) == BinaryLoop("factor", Operand("factor", p))

\* the function a level parses its operands with
Operand(level, p) ==
    CASE level = "logical_or" -> LogicalAnd(p)
      [] level = "logical_and" -> Assignment(p)
      [] level = "equality" -> Comparison(p)
      [] level = "comparison" -> Term(p)
      [] level = "term" -> Factor(p)
      [] level = "factor" -> Unary(p)

\* Parser::expression
Expression(p) == LogicalOr(p)

\* an assignment whose value is a whole expression
AssignmentValue(p) == Expression(p)

\* `let value = Box::new(self.assignment()?)`
AssignmentOperand(p) == Assignment(p)

\* Expr::Assign once the value is parsed, "Invalid assignment target" when
\* the left side is no Expr::Variable
AssignOf(left, value) ==
    IF ~value.ok THEN value
    ELSE IF left.expr.k = "Variable"
    THEN Parsed(value.p, ExprAssign(left.expr.name, value.expr))
    ELSE ParseError(value.p, "Invalid assignment target")

\* Parser::assignment after `let expr = self.equality()?`
AssignmentAfter(left) ==
    IF ~left.ok THEN left
    ELSE IF Check(left.p, "Equal") THEN AssignOf(left, AssignmentOperand(Advance(left.p)))
    ELSE left

\* Parser::assignment
Assignment(p) == AssignmentAfter(Equality(p))

\* Expr::Unary once the operand is parsed
UnaryOf(operator, right) ==
    IF ~right.ok THEN right ELSE Parsed(right.p, ExprUnary(operator, right.expr))

\* Parser::unary
Unary(p) ==
    IF Matches(p, {"Minus", "Not"}) THEN UnaryOf(Peek(p).token_type, Unary(Advance(p)))
    ELSE CallLoop(Primary(p))

\* an expression, then `while self.match_tokens(&[TokenType::Comma])` more
ListAfter(exprs, r) ==
    IF ~r.ok THEN r
    ELSE IF Check(r.p, "Comma") THEN ExpressionList(Advance(r.p), Append(exprs, r.expr))
    ELSE Parsed(r.p, Append(exprs, r.expr))

ExpressionList(p, exprs) == ListAfter(exprs, Expression(p))

\* Parser::arguments
Arguments(p) == IF Check(p, "RightParen") THEN Parsed(p, <<>>) ELSE ExpressionList(p, <<>>)

\* Expr::Call once the arguments and the ")" are parsed
CallOf(callee, arguments) ==
    IF ~arguments.ok THEN arguments
    ELSE IF callee.k = "Variable"
    THEN Parsed(arguments.p, ExprCall(callee.name, arguments.expr))
    ELSE ParseError(arguments.p, "Expected function name")

\* Parser::finish_call
FinishCall(p, callee) ==
    CallOf(callee, Expect(Arguments(p), "RightParen", "Expected ')' after arguments"))

\* Expr::Index once the index and the "]" are parsed
IndexOf(object, index) ==
    IF ~index.ok THEN index ELSE Parsed(index.p, ExprIndex(object, index.expr))

\* the arguments of an apply after its "("
ApplyArguments(open) == IF ~open.ok THEN open ELSE Arguments(open.p)

\* Expr::Apply once the arguments and the ")" are parsed
ApplyOf(object, transformer, arguments) ==
    IF ~arguments.ok THEN arguments
    ELSE Parsed(arguments.p, ExprApply(object, transformer, arguments.expr))

\* Parser::call after a ".": the transformer name and its arguments
ApplyAfterDot(object, p) ==
    IF ~Check(p, "Identifier") THEN ParseError(p, "Expected identifier after '.'")
    ELSE ApplyOf(object, Name(Peek(p).literal),
                 Expect(ApplyArguments(Expect(Parsed(Advance(p), <<>>), "LeftParen",
                                              "Expected '(' after transformer name")),
                        "RightParen", "Expected ')' after arguments"))

\* the loop of Parser::call after its primary: calls, indexes and applies
CallLoop(r) ==
    IF ~r.ok THEN r
    ELSE IF Check(r.p, "LeftParen") THEN CallLoop(FinishCall(Advance(r.p), r.expr))
    ELSE IF Check(r.p, "LeftBracket")
    THEN CallLoop(IndexOf(r.expr, Expect(Expression(Advance(r.p)), "RightBracket",
                                         "Expected ']' after index")))
    ELSE IF Check(r.p, "Dot") THEN CallLoop(ApplyAfterDot(r.expr, Advance(r.p)))
    ELSE r

\* `self.previous().literal.parse::<f64>().unwrap()`
NumberLiteral(p, literal) ==
    IF ParseF64(literal).ok THEN Parsed(p, ExprNumber(ParseF64(literal).val))
    ELSE Panic(p)

\* Expr::Array once the elements and the "]" are parsed
ArrayOf(elements) ==
    IF ~elements.ok THEN elements ELSE Parsed(elements.p, ExprArray(elements.expr))

\* Parser::array
Array(p) ==
    ArrayOf(Expect(IF Check(p, "RightBracket") THEN Parsed(p, <<>>)
                   ELSE ExpressionList(p, <<>>),
                   "RightBracket", "Expected ']' after array elements"))

\* Parser::primary
Primary(p) ==
    CASE Check(p, "Number") -> NumberLiteral(Advance(p), Peek(p).literal)
      [] Check(p, "String") -> Parsed(Advance(p), ExprString(Peek(p).literal))
      [] Check(p, "True") -> Parsed(Advance(p), ExprBoolean(TRUE))
      [] Check(p, "False") -> Parsed(Advance(p), ExprBoolean(FALSE))
      [] Check(p, "Identifier") -> Parsed(Advance(p), ExprVariable(Name(Peek(p).literal)))
      [] Check(p, "LeftBracket") -> Array(Advance(p))
      [] Check(p, "LeftParen") ->
            Expect(Expression(Advance(p)), "RightParen", "Expected ')' after expression")
      [] Check(p, "Return") -> ReturnStatement(Advance(p))
      [] OTHER -> ParseError(p, "Expected expression")

\* "Allow optional semicolons": `self.match_tokens(&[TokenType::Semicolon])`
\* once after a statement
SkipSemicolon(p) == MatchTokens(p, {"Semicolon"})

\* `body.push(self.statement()?)` and the optional semicolon, then the rest
BodyAfter(body, r) ==
    IF ~r.ok THEN r ELSE Body(SkipSemicolon(r.p), Append(body, r.expr))

\* the statements of a body: `while !self.check(TokenType::RightBrace) &&
\* !self.is_at_end() { body.push(self.statement()?); ... }`
Body(p, body) ==
    IF Check(p, "RightBrace") \/ IsAtEnd(p) THEN Parsed(p, body)
    ELSE BodyAfter(body, Statement(p))

\* the statements of a body after its "{"
BodyIn(open) == IF ~open.ok THEN open ELSE Body(open.p, <<>>)

\* a body between its braces after the result r, with the messages of the
\* two consume calls
Braces(r, before, after) ==
    Expect(BodyIn(Expect(r, "LeftBrace", before)), "RightBrace", after)

\* Expr::If with an else branch
IfElseOf(condition, then_statements, else_statements) ==
    IF ~else_statements.ok THEN else_statements
    ELSE Parsed(else_statements.p,
                ExprIf(condition.expr, ParseResult(then_statements.expr),
                       <<ParseResult(else_statements.expr)>>))

\* Parser::if_statement after the then branch
IfOf(condition, then_statements) ==
    IF ~then_statements.ok THEN then_statements
    ELSE IF Check(then_statements.p, "Else")
    THEN IfElseOf(condition, then_statements,
                  Braces(Parsed(Advance(then_statements.p), <<>>),
                         "Expected '{' after else", "Expected '}' after else branch"))
    ELSE Parsed(then_statements.p,
                ExprIf(condition.expr, ParseResult(then_statements.expr), <<>>))

\* Parser::if_statement after the condition
IfAfter(condition) ==
    IfOf(condition, Braces(condition, "Expected '{' after if condition",
                           "Expected '}' after then branch"))

\* Parser::if_statement
IfStatement(p) == IfAfter(Expression(p))

\* the iterable of a for loop after `in`
ForIterable(keyword) == IF ~keyword.ok THEN keyword ELSE Expression(keyword.p)

\* Expr::For once the body is parsed
ForOf(variable, iterable, body) ==
    IF ~body.ok THEN body
    ELSE Parsed(body.p, ExprFor(variable, iterable.expr, ExprBlock(body.expr)))

\* Parser::for_loop after the iterable
ForAfter(variable, iterable) ==
    ForOf(variable, iterable,
          Braces(iterable, "Expected '{' after iterable", "Expected '}' after for loop body"))

\* Parser::for_loop
ForStatement(p) ==
    IF ~Check(p, "Identifier") THEN ParseError(p, "Expected variable name")
    ELSE ForAfter(Name(Peek(p).literal),
                  ForIterable(Expect(Parsed(Advance(p), <<>>), "In",
                                     "Expected 'in' after variable")))

\* Expr::While once the body is parsed
WhileOf(condition, body) ==
    IF ~body.ok THEN body
    ELSE Parsed(body.p, ExprWhile(condition.expr, ExprBlock(body.expr)))

\* Parser::while_loop after the condition
WhileAfter(condition) ==
    WhileOf(condition, Braces(condition, "Expected '{' after while condition",
                              "Expected '}' after while loop body"))

\* Parser::while_loop
WhileStatement(p) == WhileAfter(Expression(p))

\* the parameters after the first: `while self.match_tokens(&[Comma])`, each
\* followed by an Identifier
RECURSIVE Params(_, _)
Params(p, params) ==
    IF Check(p, "Comma")
    THEN IF Check(Advance(p), "Identifier")
         THEN Params(Advance(Advance(p)),
                     Append(params, Name(Peek(Advance(p)).literal)))
         ELSE ParseError(Advance(p), "Expected parameter name")
    ELSE Parsed(p, params)

\* Expr::Function once the body is parsed
FunctionOf(name, params, body) ==
    IF ~body.ok THEN body
    ELSE Parsed(body.p, ExprFunction(name, params.expr, body.expr))

\* Parser::function_definition after the parameters
FunctionAfter(name, params) ==
    FunctionOf(name, params,
               Braces(Expect(params, "RightParen", "Expected ')' after parameters"),
                      "Expected '{' before function body",
                      "Expected '}' after function body"))

\* Parser::function_definition after the "(": a first token that is no
\* Identifier is left where it is
FunctionParams(name, open) ==
    IF ~open.ok THEN open
    ELSE FunctionAfter(name,
                       IF Check(open.p, "RightParen") THEN Parsed(open.p, <<>>)
                       ELSE IF Check(open.p, "Identifier")
                       THEN Params(Advance(open.p), <<Name(Peek(open.p).literal)>>)
                       ELSE Params(open.p, <<>>))

\* Parser::function_definition
FunctionDefinition(p) ==
    IF ~Check(p, "Identifier") THEN ParseError(p, "Expected function name")
    ELSE FunctionParams(Name(Peek(p).literal),
                        Expect(Parsed(Advance(p), <<>>), "LeftParen",
                               "Expected '(' after function name"))

\* Expr::Transformer once the body is parsed
TransformerOf(name, params, body) ==
    IF ~body.ok THEN body
    ELSE Parsed(body.p, ExprTransformer(name, params.expr, body.expr))

\* Parser::transformer_definition after the parameters
TransformerAfter(name, params) ==
    TransformerOf(name, params,
                  Braces(Expect(params, "RightParen", "Expected ')' after parameters"),
                         "Expected '{' before transformer body",
                         "Expected '}' after transformer body"))

\* Parser::transformer_definition after the "(": every parameter is an
\* Identifier
TransformerParams(name, open) ==
    IF ~open.ok THEN open
    ELSE TransformerAfter(name,
                          IF Check(open.p, "RightParen") THEN Parsed(open.p, <<>>)
                          ELSE IF Check(open.p, "Identifier")
                          THEN Params(Advance(open.p), <<Name(Peek(open.p).literal)>>)
                          ELSE ParseError(open.p, "Expected parameter name"))

\* Parser::transformer_definition
TransformerDefinition(p) ==
    IF ~Check(p, "Identifier") THEN ParseError(p, "Expected transformer name")
    ELSE TransformerParams(Name(Peek(p).literal),
                           Expect(Parsed(Advance(p), <<>>), "LeftParen",
                                  "Expected '(' after transformer name"))

\* Expr::Return once its value is parsed
ReturnOf(value) ==
    IF ~value.ok THEN value
    ELSE Parsed(SkipSemicolon(value.p), ExprReturn(<<value.expr>>))

\* Parser::return_statement
ReturnStatement(p) ==
    IF Check(p, "Semicolon") THEN Parsed(SkipSemicolon(p), ExprReturn(<<>>))
    ELSE ReturnOf(Statement(p))

\* Parser::use_statement
UseStatement(p) ==
    IF Check(p, "String")
    THEN Parsed(SkipSemicolon(Advance(p)), ExprUse(Name(Peek(p).literal)))
    ELSE ParseError(p, "Expected string path after 'use'")

\* Parser::statement
Statement(p) ==
    CASE Check(p, "Fn") -> FunctionDefinition(Advance(p))
      [] Check(p, "Transformer") -> TransformerDefinition(Advance(p))
      [] Check(p, "Use") -> UseStatement(Advance(p))
      [] Check(p, "Return") -> ReturnStatement(Advance(p))
      [] Check(p, "If") -> IfStatement(Advance(p))
      [] Check(p, "For") -> ForStatement(Advance(p))
      [] Check(p, "While") -> WhileStatement(Advance(p))
      [] OTHER -> Expression(p)

\* the loop of Parser::parse: `while !self.is_at_end()`
RECURSIVE ParseLoop(_, _)

\* `expressions.push(self.statement()?)` and the optional semicolon, then the
\* rest
ParseAfter(expressions, r) ==
    IF ~r.ok THEN r ELSE ParseLoop(SkipSemicolon(r.p), Append(expressions, r.expr))

ParseLoop(p, expressions) ==
    IF IsAtEnd(p) THEN Parsed(p, ParseResult(expressions))
    ELSE ParseAfter(expressions, Statement(p))

\* Parser::parse
Parse(tokens) == ParseLoop(Parser(tokens), <<>>)

(***************************************************************************)
(* The state machine: main() builds one Interpreter and evaluates the      *)
(* program's Block statement by statement until one fails.                 *)
(***************************************************************************)
VARIABLES environment, imported_files, stdout, stderr, status, steps, last, result, log,
          loads, pc, file_str, tokens, parsed

vars ==
    <<environment, imported_files, stdout, stderr, status, steps, last, result, log, loads,
      pc, file_str, tokens, parsed>>

\* Interpreter::new: an empty frame enclosing the frame of the built-ins
NewEnvironment ==
    NewWithEnclosing(
        <<EnvDefine(EnvDefine(<<EmptyFrame>>, "print",
                              FunctionValue(<<"message">>, <<>>)),
                    "range", FunctionValue(<<"start", "end">>, <<>>))[1]>>)

Init ==
    /\ environment = NewEnvironment
    /\ imported_files = <<>>
    /\ stdout = <<>>
    /\ stderr = ""
    /\ status = "running"
    /\ steps = 0
    /\ last = ExprBlock(<<>>)
    /\ result = Nil
    /\ log = <<>>
    /\ loads = <<>>
    /\ pc = "read"
    /\ file_str = <<>>
    /\ tokens = <<>>
    /\ parsed = <<>>

\* the main interpreter about to evaluate a statement, with the lines stdin
\* holds and the budget of the evaluation
MainInterpreter(stdin, fuel) ==
    [log |-> <<>>, environment |-> environment, imported_files |-> imported_files,
     loads |-> loads, fuel |-> fuel, stdout |-> stdout, stdin |-> stdin,
     chain |-> <<>>]

\* one iteration of the loop of Expr::Block over the program: evaluate the
\* statement; its error ends the run (process_file prints it to stderr and
\* returns).  An error message is modelled by its fixed text, without the
\* name, index or path the code formats into it.
Step(expr, stdin) ==
    LET r == Evaluate(expr, MainInterpreter(stdin, MaxFuel))
    IN  /\ status = "running"
        /\ steps < MaxStmts
        /\ r.err \notin Cut
        /\ environment' = r.st.environment
        /\ imported_files' = r.st.imported_files
        /\ stdout' = r.st.stdout
        /\ stderr' = r.err
        /\ status' = IF r.ok THEN "running" ELSE "error"
        /\ steps' = steps + 1
        /\ last' = expr
        /\ result' = r.val
        /\ log' = r.st.log
        /\ loads' = r.st.loads
        /\ UNCHANGED <<pc, file_str, tokens, parsed>>

EvalAssign == \E expr \in AssignStatements : Step(expr, <<>>)

EvalFunction == \E expr \in FunctionStatements : Step(expr, <<>>)

EvalTransformer == \E expr \in TransformerStatements : Step(expr, <<>>)

EvalCall == \E expr \in CallStatements : Step(expr, <<>>)

\* line = input("? ")
EvalInput ==
    \E line \in InputLines :
        Step(ExprAssign("line", ExprCall("input", <<ExprString(<<"?", " ">>)>>)),
             <<line>>)

EvalApply == \E expr \in ApplyStatements : Step(expr, <<>>)

EvalFor == \E expr \in ForStatements : Step(expr, <<>>)

EvalWhile == \E expr \in WhileStatements : Step(expr, <<>>)

EvalIf == \E expr \in IfStatements : Step(expr, <<>>)

EvalUse == \E expr \in UseStatements : Step(expr, <<>>)

Next ==
    \/ EvalAssign
    \/ EvalFunction
    \/ EvalTransformer
    \/ EvalCall
    \/ EvalInput
    \/ EvalApply
    \/ EvalFor
    \/ EvalWhile
    \/ EvalIf
    \/ EvalUse

Spec == Init /\ [][Next]_vars

(***************************************************************************)
(* The programs over values: short programs whose statements apply an      *)
(* operator, a built-in function or a built-in transformer to literals.    *)
(***************************************************************************)
\* the literal of the integer i; a negative one is a unary minus
Lit(i) == IF i < 0 THEN ExprUnary("Minus", N(-i)) ELSE N(i)

\* the literal of h / 2
Half(h) ==
    IF h < 0 THEN ExprUnary("Minus", ExprNumber(Rat(-h, 2))) ELSE ExprNumber(Rat(h, 2))

Ints == (-MaxInt)..MaxInt

Halves == (-2 * MaxInt)..(2 * MaxInt)

\* []    [10, 20, 30]
ArrayLiterals == {ExprArray(<<>>), ExprArray(<<N(10), N(20), N(30)>>)}

\* print("p"), an expression whose value is Nil
NilExpr == ExprCall("print", <<ExprString(<<"p">>)>>)

\* 7  1.5  -2  "7"  "1.5"  "-2"  "true"  "false"  "ab"  ""  true  false
\* [1, 2]  ["a", [1]]  []  print  none  print("p")
Objects ==
    <<N(7), ExprNumber(Rat(3, 2)), Lit(-2),
     ExprString(<<"7">>), ExprString(<<"1", ".", "5">>), ExprString(<<"-", "2">>),
     ExprString(StrTrue), ExprString(StrFalse), ExprString(<<"a", "b">>),
     ExprString(<<>>), ExprBoolean(TRUE), ExprBoolean(FALSE),
     ExprArray(<<N(1), N(2)>>),
     ExprArray(<<ExprString(<<"a">>), ExprArray(<<N(1)>>)>>), ExprArray(<<>>),
     V("print"), V("none"), NilExpr>>

\* if true { print(o.to_string())  print(o) }
Render(o) ==
    ExprIf(ExprBoolean(TRUE),
           ExprBlock(<<ExprCall("print", <<ExprApply(o, "to_string", <<>>)>>),
                       ExprCall("print", <<o>>)>>), <<>>)

\* p = a and q = b    p = a or q = b
LogicalAssign(a, operator, b) ==
    ExprBinary(ExprAssign("p", ExprBoolean(a)), operator, ExprAssign("q", ExprBoolean(b)))

\* o = true and o = false
LogicalOrder ==
    ExprBinary(ExprAssign("o", ExprBoolean(TRUE)), "And",
               ExprAssign("o", ExprBoolean(FALSE)))

\* print("rhs")
PrintRhs == ExprCall("print", <<ExprString(<<"r", "h", "s">>)>>)

\* false and print("rhs")
LogicalRightNil == ExprBinary(ExprBoolean(FALSE), "And", PrintRhs)

\* true or nowhere
LogicalRightFails == ExprBinary(ExprBoolean(TRUE), "Or", V("nowhere"))

\* nowhere and print("rhs")
LogicalLeftFails == ExprBinary(V("nowhere"), "And", PrintRhs)

\* 1 and true
LogicalLeftNumber == ExprBinary(N(1), "And", ExprBoolean(TRUE))

\* true or 1
LogicalRightNumber == ExprBinary(ExprBoolean(TRUE), "Or", N(1))

LogicalStatements ==
    <<LogicalOrder, LogicalRightNil, LogicalRightFails, LogicalLeftFails,
      LogicalLeftNumber, LogicalRightNumber>>

\* a statement of a program over values
ValueStep(expr) == steps < MaxValueStmts /\ Step(expr, <<>>)

DefineTransformer == \E expr \in TransformerStatements : ValueStep(expr)

EvalModulo == \E a \in Ints, b \in Ints : ValueStep(ExprBinary(Lit(a), "Modulo", Lit(b)))

EvalRange == \E a \in Ints, b \in Ints : ValueStep(ExprCall("range", <<Lit(a), Lit(b)>>))

EvalIndex == \E a \in ArrayLiterals, h \in Halves : ValueStep(ExprIndex(a, Half(h)))

EvalConvert ==
    \E i \in 1..Len(Objects), transformer \in {"to_string", "to_number", "parse_number"} :
        ValueStep(ExprApply(Objects[i], transformer, <<>>))

EvalRender == \E i \in 1..Len(Objects) : ValueStep(Render(Objects[i]))

EvalLogical ==
    \/ \E a \in BOOLEAN, operator \in {"And", "Or"}, b \in BOOLEAN :
          ValueStep(LogicalAssign(a, operator, b))
    \/ \E i \in 1..Len(LogicalStatements) : ValueStep(LogicalStatements[i])

NextValues ==
    \/ DefineTransformer
    \/ EvalModulo
    \/ EvalRange
    \/ EvalIndex
    \/ EvalConvert
    \/ EvalRender
    \/ EvalLogical

SpecValues == Init /\ [][NextValues]_vars

(***************************************************************************)
(* The texts.  process_file (src/src/main.rs) joins the lines of the file  *)
(* into file_str, lexes it, parses the tokens and evaluates the Expr; an   *)
(* Err of the parser or of the interpreter is printed to stderr, a panic   *)
(* aborts the process.                                                     *)
(***************************************************************************)
\* a digit, the dot, a letter, the underscore, the quote, the bang, the equals
\* sign, the slash, the newline, the space, a character no token starts with,
\* the semicolon
Alphabet == {"1", ".", "a", "_", "\"", "!", "=", "/", "\n", " ", "#", ";"}

\* every text of at most MaxChars characters of the Alphabet
ShortTexts == UNION {[1..n -> Alphabet] : n \in 0..MaxChars}

\* the spelling of a binary operator
Lexeme ==
    [operator \in UNION {Operators[level] : level \in DOMAIN Operators} |->
        CASE operator = "Or" -> <<"o", "r">>
          [] operator = "And" -> <<"a", "n", "d">>
          [] operator = "EqualEqual" -> <<"=", "=">>
          [] operator = "BangEqual" -> <<"!", "=">>
          [] operator = "LessThan" -> <<"<">>
          [] operator = "LessThanEqual" -> <<"<", "=">>
          [] operator = "GreaterThan" -> <<">">>
          [] operator = "GreaterThanEqual" -> <<">", "=">>
          [] operator = "Plus" -> <<"+">>
          [] operator = "Minus" -> <<"-">>
          [] operator = "Multiply" -> <<"*">>
          [] operator = "Divide" -> <<"/">>
          [] operator = "Modulo" -> <<"%">>]

\* 1 first 2 second 3
Chain(first, second) ==
    <<"1", " ">> \o Lexeme[first] \o <<" ", "2", " ">> \o Lexeme[second] \o <<" ", "3">>

ChainTexts == {Chain(first, second) : first \in DOMAIN Lexeme, second \in DOMAIN Lexeme}

\* a = b == c and d
AssignEqualityAnd ==
    <<"a", " ", "=", " ", "b", " ", "=", "=", " ", "c", " ", "a", "n", "d", " ", "d">>

\* a = b = 1
AssignAssign ==
    <<"a", " ", "=", " ", "b", " ", "=", " ", "1">>

\* a = true or false
AssignOr ==
    <<"a", " ", "=", " ", "t", "r", "u", "e", " ", "o", "r", " ", "f", "a", "l", "s",
    "e">>

\* 1 = 2
AssignToNumber ==
    <<"1", " ", "=", " ", "2">>

\* a + 1 = 2
AssignToSum ==
    <<"a", " ", "+", " ", "1", " ", "=", " ", "2">>

\* a[0] = 1
AssignToIndex ==
    <<"a", "[", "0", "]", " ", "=", " ", "1">>

\* f() = 1
AssignToCall ==
    <<"f", "(", ")", " ", "=", " ", "1">>

\* (a) = 1
AssignToParenthesized ==
    <<"(", "a", ")", " ", "=", " ", "1">>

AssignTexts ==
    {AssignEqualityAnd, AssignAssign, AssignOr, AssignToNumber, AssignToSum, AssignToIndex,
     AssignToCall, AssignToParenthesized}

\* n semicolons in a row
RECURSIVE Semicolons(_)
Semicolons(n) == IF n = 0 THEN <<>> ELSE <<";">> \o Semicolons(n - 1)

\* a = 1
FirstStatement ==
    <<"a", " ", "=", " ", "1">>

\*  b = a
SecondStatement ==
    <<" ", "b", " ", "=", " ", "a">>

\* the two statements and their separator at top level and in each body
Separated ==
    [place \in {"top", "fn", "transformer", "if", "else", "for", "while"} |->
        [n \in 0..MaxSemicolons |->
            LET statements == FirstStatement \o Semicolons(n) \o SecondStatement
            IN  CASE place = "top" -> statements
                  [] place = "fn" ->
                        <<"f", "n", " ", "f", "(", ")", " ", "{", " ">> \o statements \o <<" ", "}">>
                  [] place = "transformer" ->
                        <<"t", "r", "a", "n", "s", "f", "o", "r", "m", "e", "r", " ", "t", "(", ")", " ", "{", " ">>
                            \o statements \o <<" ", "}">>
                  [] place = "if" ->
                        <<"i", "f", " ", "t", "r", "u", "e", " ", "{", " ">> \o statements \o <<" ", "}">>
                  [] place = "else" ->
                        <<"i", "f", " ", "f", "a", "l", "s", "e", " ", "{", " ", "}", " ", "e", "l", "s", "e", " ", "{", " ">>
                            \o statements \o <<" ", "}">>
                  [] place = "for" ->
                        <<"f", "o", "r", " ", "x", " ", "i", "n", " ", "[", "1", "]", " ", "{", " ">>
                            \o statements \o <<" ", "}">>
                  [] place = "while" ->
                        <<"w", "h", "i", "l", "e", " ", "f", "a", "l", "s", "e", " ", "{", " ">>
                            \o statements \o <<" ", "}">>]]

SeparatedTexts == {Separated[place][n] : place \in DOMAIN Separated, n \in 0..MaxSemicolons}

\* fn f() { return } r = f()
ReturnBare ==
    <<"f", "n", " ", "f", "(", ")", " ", "{", " ", "r", "e", "t", "u", "r", "n", " ",
    "}", " ", "r", " ", "=", " ", "f", "(", ")">>

\* fn f() { return; } r = f()
ReturnSemicolon ==
    <<"f", "n", " ", "f", "(", ")", " ", "{", " ", "r", "e", "t", "u", "r", "n", ";",
    " ", "}", " ", "r", " ", "=", " ", "f", "(", ")">>

\* fn f() { return 1 } r = f()
ReturnValue ==
    <<"f", "n", " ", "f", "(", ")", " ", "{", " ", "r", "e", "t", "u", "r", "n", " ",
    "1", " ", "}", " ", "r", " ", "=", " ", "f", "(", ")">>

\* fn f() { return 1; } r = f()
ReturnValueSemicolon ==
    <<"f", "n", " ", "f", "(", ")", " ", "{", " ", "r", "e", "t", "u", "r", "n", " ",
    "1", ";", " ", "}", " ", "r", " ", "=", " ", "f", "(", ")">>

ReturnTexts == {ReturnBare, ReturnSemicolon, ReturnValue, ReturnValueSemicolon}

\* 1.2.3
SeveralDots ==
    <<"1", ".", "2", ".", "3">>

\* x = 1.5
OneDot ==
    <<"x", " ", "=", " ", "1", ".", "5">>

\* (1
UnclosedParen ==
    <<"(", "1">>

\* use 1
UseNothing ==
    <<"u", "s", "e", " ", "1">>

NumberTexts == {SeveralDots, OneDot, UnclosedParen, UseNothing}

Texts == ShortTexts \cup ChainTexts \cup AssignTexts \cup SeparatedTexts \cup ReturnTexts
            \cup NumberTexts

\* read_file and lines.join
ReadFile ==
    /\ pc = "read"
    /\ \E text \in Texts : file_str' = text
    /\ pc' = "lex"
    /\ UNCHANGED <<environment, imported_files, stdout, stderr, status, steps, last,
                   result, log, loads, tokens, parsed>>

\* lexer.lex()
LexFile ==
    /\ pc = "lex"
    /\ tokens' = Lex(file_str)
    /\ pc' = "parse"
    /\ UNCHANGED <<environment, imported_files, stdout, stderr, status, steps, last,
                   result, log, loads, file_str, parsed>>

\* parser.parse(): its Err is printed to stderr, its panic aborts the process
ParseFile ==
    LET r == Parse(tokens)
    IN  /\ pc = "parse"
        /\ parsed' = r
        /\ pc' = IF r.ok THEN "evaluate" ELSE IF r.panic THEN "aborted" ELSE "done"
        /\ stderr' = r.err
        /\ status' = IF r.ok THEN "running" ELSE IF r.panic THEN "panic" ELSE "error"
        /\ UNCHANGED <<environment, imported_files, stdout, steps, last, result, log,
                       loads, file_str, tokens>>

\* interpreter.evaluate(&expr): its Err is printed to stderr
EvaluateFile ==
    LET r == Evaluate(parsed.expr, MainInterpreter(<<>>, MaxFuel))
    IN  /\ pc = "evaluate"
        /\ r.err \notin Cut
        /\ pc' = "done"
        /\ environment' = r.st.environment
        /\ imported_files' = r.st.imported_files
        /\ stdout' = r.st.stdout
        /\ stderr' = r.err
        /\ status' = IF r.ok THEN "running" ELSE "error"
        /\ steps' = steps + 1
        /\ last' = parsed.expr
        /\ result' = r.val
        /\ log' = r.st.log
        /\ loads' = r.st.loads
        /\ UNCHANGED <<file_str, tokens, parsed>>

NextSyntax ==
    \/ ReadFile
    \/ LexFile
    \/ ParseFile
    \/ EvaluateFile

SpecSyntax == Init /\ [][NextSyntax]_vars

(***************************************************************************)
(* Properties.  The log holds one record for every call, apply, for,       *)
(* while and use the last top-level statement completed, at any nesting    *)
(* depth: entry / old_env are the environment the operation started from,  *)
(* post the one it left.                                                   *)
(***************************************************************************)
\* index of the first Return node at the top level of a body, 0 when none
RECURSIVE FirstReturn(_, _)
FirstReturn(body, i) ==
    IF i > Len(body) THEN 0
    ELSE IF body[i].k = "Return" THEN i ELSE FirstReturn(body, i + 1)

\* name is bound and reads as value
Reads(env, name, value) == EnvHas(env, name) /\ EnvGet(env, name) = value

\* env1 equals env0 but for the binding of name in frame f, which is value
SameBut(env1, env0, f, name, value) ==
    /\ Len(env1) = Len(env0)
    /\ \A g \in 1..Len(env0) :
          /\ DOMAIN env1[g] = DOMAIN env0[g]
          /\ \A n \in DOMAIN env0[g] :
                env1[g][n] = IF g = f /\ n = name THEN value ELSE env0[g][n]

UserApplyOnVariable(ev) == ev.e = "apply" /\ ev.user /\ ev.object.k = "Variable"

\* C1: a user transformer applied to a bare variable x, once its body has
\* completed, leaves the environment it was applied in changed in exactly
\* one place: the innermost frame that binds x binds it to the transformer's
\* result, which is Nil for an empty body, the value of the last body
\* expression without a top-level Return (applied + k for addn) and the
\* payload of the first top-level Return otherwise (applied * applied for
\* square); the apply returns that value.
C1_ApplyRebindsVariable ==
    /\ \A k \in 1..Len(log) :
          UserApplyOnVariable(log[k]) =>
             LET ev == log[k]
                 x  == ev.object.name
                 j  == FirstReturn(ev.body, 1)
             IN  /\ \E f \in 1..Len(ev.old_env) :
                       /\ x \in DOMAIN ev.old_env[f]
                       /\ \A g \in 1..(f - 1) : x \notin DOMAIN ev.old_env[g]
                       /\ SameBut(ev.post, ev.old_env, f, x, ev.val)
                 /\ ev.ran = IF j > 0 THEN j ELSE Len(ev.body)
                 /\ (ev.body = <<>> => ev.val = Nil)
                 /\ (ev.body = TrSquare.body /\ ev.object_val.t = "Number"
                        => ev.val = NumMul(ev.object_val, ev.object_val))
                 /\ (ev.body = TrAddn.body /\ ev.object_val.t = "Number"
                        => ev.val = NumAdd(ev.object_val, ev.frame["k"]))
    /\ (status = "running" /\ last.k = "Apply" /\ last.object.k = "Variable"
          /\ last.transformer \notin BuiltinTransformers)
          => /\ result = log[Len(log)].val
             /\ environment = log[Len(log)].post
             /\ Reads(environment, last.object.name, result)

\* transformer square() { return applied * applied }  x = 4  x.square()
\* has run and x is 16
C1_Witness ==
    /\ status = "running"
    /\ last = ExprApply(V("x"), "square", <<>>)
    /\ steps = 3
    /\ Reads(environment, "x", Num(16))
    /\ result = Num(16)

\* the argument expressions that cannot change the state
RECURSIVE SideEffectFree(_)
SideEffectFree(expr) ==
    CASE expr.k \in {"Number", "String", "Boolean", "Variable"} -> TRUE
      [] expr.k = "Array" ->
            \A i \in 1..Len(expr.elements) : SideEffectFree(expr.elements[i])
      [] expr.k = "Binary" -> SideEffectFree(expr.left) /\ SideEffectFree(expr.right)
      [] expr.k = "Unary" -> SideEffectFree(expr.right)
      [] expr.k = "Index" -> SideEffectFree(expr.object) /\ SideEffectFree(expr.index)
      [] OTHER -> FALSE

CallWithPlainArguments(ev) ==
    /\ ev.e = "call"
    /\ \A i \in 1..Len(ev.arguments) : SideEffectFree(ev.arguments[i])

\* C2: a completed call of a user function with side-effect-free arguments
\* leaves the environment equal, frame by frame and binding by binding, to
\* the one it was made in, whatever the body defined or assigned.
C2_CallRestoresEnvironment ==
    /\ \A k \in 1..Len(log) :
          CallWithPlainArguments(log[k]) => log[k].post = log[k].entry
    /\ (status = "running" /\ last.k = "Call"
          /\ last.callee \notin {"print", "input", "range"}
          /\ \A i \in 1..Len(last.arguments) : SideEffectFree(last.arguments[i]))
          => environment = log[Len(log)].entry

\* g(5) has completed where x was bound: its body assigned x = 9 and defined
\* y in the callee's environment, and the caller still has x = 4 and no y
C2_Witness ==
    /\ status = "running"
    /\ last = ExprCall("g", <<N(5)>>)
    /\ Reads(log[Len(log)].entry, "x", Num(4))
    /\ Reads(log[Len(log)].inner, "y", Num(5))
    /\ Reads(log[Len(log)].inner, "x", Num(9))
    /\ Reads(environment, "x", Num(4))
    /\ ~EnvHas(environment, "y")

\* the two chains have the same frames, each binding the same names
SameNames(env1, env0) ==
    /\ Len(env1) = Len(env0)
    /\ \A g \in 1..Len(env0) : DOMAIN env1[g] = DOMAIN env0[g]

\* the names a block assigns by a statement of its own
AssignedNames(block) ==
    {block.expressions[i].name :
        i \in {j \in 1..Len(block.expressions) : block.expressions[j].k = "Assign"}}

C4_ForLeavesNoName ==
    \A k \in 1..Len(log) :
       log[k].e = "for" =>
          LET ev == log[k]
          IN  /\ SameNames(ev.post, ev.entry)
              /\ \A g \in 1..Len(ev.entry) :
                    ev.variable \in DOMAIN ev.entry[g]
                       => ev.post[g][ev.variable] = ev.entry[g][ev.variable]

\* i = 0  for i in [1, 2] { t = i  i = 7 } has run: i is still 0 and t is
\* unbound
C4_Witness ==
    /\ status = "running"
    /\ last = ForLocal
    /\ Len(log[Len(log)].elements) = 2
    /\ Reads(log[Len(log)].entry, "i", Num(0))
    /\ Reads(environment, "i", Num(0))
    /\ ~EnvHas(environment, "t")

RECURSIVE SumNumbers(_, _)
SumNumbers(elements, i) ==
    IF i > Len(elements) THEN Num(0)
    ELSE NumAdd(elements[i], SumNumbers(elements, i + 1))

RECURSIVE ConcatStrings(_, _)
ConcatStrings(elements, i) ==
    IF i > Len(elements) THEN <<>>
    ELSE elements[i].s \o ConcatStrings(elements, i + 1)

\* C5: an assignment in a for body to a name bound before the loop
\* accumulates over the iterations and is what the code after the loop
\* reads: after `for i in <numbers> { s = s + i }` the binding of s that
\* existed before the loop holds the old s plus the sum of all elements,
\* after `for c in <string> { s = s + c }` the old s rendered as text
\* followed by all the characters, and nothing else has changed.
C5_ForBodyAssignmentPersists ==
    /\ \A k \in 1..Len(log) :
          (log[k].e = "for" /\ EnvHas(log[k].entry, "s")) =>
             LET ev == log[k]
                 s0 == EnvGet(ev.entry, "s")
                 f  == CHOOSE g \in 1..Len(ev.entry) :
                          /\ "s" \in DOMAIN ev.entry[g]
                          /\ \A h \in 1..(g - 1) : "s" \notin DOMAIN ev.entry[h]
             IN  /\ (ev.body = ForSum.body /\ s0.t = "Number")
                       => SameBut(ev.post, ev.entry, f, "s",
                                  NumAdd(s0, SumNumbers(ev.elements, 1)))
                 /\ ev.body = ForChars.body
                       => SameBut(ev.post, ev.entry, f, "s",
                                  Str(Display(s0) \o ConcatStrings(ev.elements, 1)))
    /\ (status = "running" /\ last.k = "For") => environment = log[Len(log)].post

\* s = 0  for i in range(1, 6) { s = s + i } has run and s is 15
C5_Witness ==
    /\ status = "running"
    /\ last = ForSum
    /\ steps = 2
    /\ Len(log[Len(log)].elements) = 5
    /\ Reads(environment, "s", Num(15))

BodyRun(ev) == ev.e = "call" \/ (ev.e = "apply" /\ ev.user)

\* "late" printed on a line of its own
LatePrinted(out) ==
    \E i \in 1..(Len(out) - 3) : SubSeq(out, i, i + 3) = <<"l", "a", "t", "e">>

\* C6: in a completed call or apply whose body has a Return node at its top
\* level, the body loop has evaluated exactly the expressions up to the
\* first such node and the result is its payload: Nil without a payload, the
\* literal for a literal payload; for g (y = a, x = 9, return y, print("late"),
\* z = 1) the result is the argument, nothing was printed and z was not
\* assigned.
C6_TopLevelReturnEndsBody ==
    \A k \in 1..Len(log) :
       (BodyRun(log[k]) /\ FirstReturn(log[k].body, 1) > 0) =>
          LET ev == log[k]
              j  == FirstReturn(ev.body, 1)
          IN  /\ ev.ran = j
              /\ ev.body[j].value = <<>> => ev.val = Nil
              /\ (ev.body[j].value # <<>> /\ ev.body[j].value[1].k = "Number")
                    => ev.val = ev.body[j].value[1].v
              /\ ev.body = FnG.body =>
                    /\ ev.val = ev.frame["a"]
                    /\ ~LatePrinted(ev.out)
                    /\ ~EnvHas(ev.inner, "z")

\* g(5) has returned 5 after three of its five body expressions
C6_Witness ==
    /\ status = "running"
    /\ last = ExprCall("g", <<N(5)>>)
    /\ log[Len(log)].ran = 3
    /\ Len(log[Len(log)].body) = 5
    /\ result = Num(5)
    /\ ~LatePrinted(stdout)

\* C7: a Return inside an `if` does not end the call.  f (if n < 2
\* { return 0 } return 1) evaluates both body expressions and yields 1 for
\* every n; h, whose only body expression is an if / else with a Return in
\* each branch, yields the payload of the branch taken.
C7_NestedReturnDoesNotExit ==
    \A k \in 1..Len(log) :
       log[k].e = "call" =>
          LET ev == log[k]
          IN  /\ ev.body = FnF.body => (ev.ran = 2 /\ ev.val = Num(1))
              /\ (ev.body = FnH.body /\ ev.frame["n"].t = "Number") =>
                    /\ ev.ran = 1
                    /\ ev.val = IF NumLess(ev.frame["n"], Num(2))
                                THEN Num(10) ELSE Num(20)

\* f(1) has run: the branch `return 0` was taken and the call yielded 1
C7_Witness ==
    /\ status = "running"
    /\ last = ExprCall("f", <<N(1)>>)
    /\ log[Len(log)].frame["n"] = Num(1)
    /\ result = Num(1)

\* C8: no file is evaluated through `use` twice in one run: loads, the
\* paths whose file a `use` of any evaluator of the run has evaluated, has
\* no path twice.
C8_FileEvaluatedAtMostOnce ==
    \A i \in 1..Len(loads) : \A j \in 1..Len(loads) : i # j => loads[i] # loads[j]

\* C9: a `use p` evaluated when p is already in the evaluator's imported
\* paths is skipped: it leaves the environment, the imported paths and the
\* files evaluated as they were, writes nothing and yields Nil.
C9_SecondUseIsNoOp ==
    /\ \A k \in 1..Len(log) :
          (log[k].e = "use" /\ Contains(log[k].imported, log[k].path)) =>
             LET ev == log[k]
             IN  /\ ev.skipped
                 /\ ev.post = ev.entry
                 /\ ev.post_imported = ev.imported
                 /\ ev.post_loads = ev.loads
                 /\ ev.out = <<>>
    /\ (status = "running" /\ last.k = "Use" /\ log[Len(log)].skipped)
          => /\ result = Nil
             /\ environment = log[1].entry
             /\ imported_files = log[1].imported
             /\ loads = log[1].loads

\* use "c.m" has run a second time in the main evaluator
C9_Witness ==
    /\ status = "running"
    /\ last = ExprUse("c.m")
    /\ Len(log) = 1
    /\ log[1].skipped
    /\ loads = <<"c.m">>
    /\ Reads(environment, "cx", Num(2))

\* C10: a `use` that succeeds leaves every binding of the sub-evaluator's
\* innermost frame in the caller's innermost frame, with the
\* sub-evaluator's value, whatever the caller had bound to the name; the
\* caller's outer frames are as they were.
C10_UseMergesInnermostFrame ==
    \A k \in 1..Len(log) :
       (log[k].e = "use" /\ ~log[k].skipped) =>
          LET ev == log[k]
          IN  /\ Len(ev.post) = Len(ev.entry)
              /\ Len(ev.sub) = Len(ev.entry)
              /\ \A n \in DOMAIN ev.sub[1] :
                    n \in DOMAIN ev.post[1] /\ ev.post[1][n] = ev.sub[1][n]
              /\ \A g \in 2..Len(ev.entry) : ev.post[g] = ev.entry[g]

\* u(0) has evaluated use "b.m" in its body with x = 4 bound in the
\* caller's frame: b.m rebound the callee's bx from 0 to 1 and set x = 5 in
\* its copy of the outer frame, which the caller does not see
C10_Witness ==
    \E k \in 1..Len(log) :
       /\ log[k].e = "use" /\ ~log[k].skipped
       /\ log[k].path = "b.m"
       /\ Len(log[k].entry) = 3
       /\ log[k].entry[1]["bx"] = Num(0)
       /\ log[k].post[1]["bx"] = Num(1)
       /\ "x" \in DOMAIN log[k].entry[2]
       /\ log[k].sub[2]["x"] = Num(5)
       /\ log[k].post[2]["x"] = Num(4)

\* env1 is env0 with name newly bound to value in the innermost frame
DefinedIn(env1, env0, name, value) ==
    /\ Len(env1) = Len(env0)
    /\ DOMAIN env1[1] = (DOMAIN env0[1]) \cup {name}
    /\ env1[1][name] = value
    /\ \A n \in DOMAIN env0[1] : env1[1][n] = env0[1][n]
    /\ \A g \in 2..Len(env0) : env1[g] = env0[g]

\* C11: an assignment name = value, once the value is evaluated, changes the
\* chain in one place.  If some frame binds the name, the innermost such
\* frame binds it to the value and every other frame, the outer ones that
\* bind the name too, and the number of frames are as they were; if no
\* frame binds it, the innermost frame binds it in addition to what it
\* bound.  The value of the assignment is the assigned value.
C11_AssignUpdatesNearestBinding ==
    /\ \A k \in 1..Len(log) :
          log[k].e = "assign" =>
             LET ev == log[k]
             IN  IF \E g \in 1..Len(ev.entry) : ev.name \in DOMAIN ev.entry[g]
                 THEN \E f \in 1..Len(ev.entry) :
                         /\ ev.name \in DOMAIN ev.entry[f]
                         /\ \A g \in 1..(f - 1) : ev.name \notin DOMAIN ev.entry[g]
                         /\ SameBut(ev.post, ev.entry, f, ev.name, ev.val)
                 ELSE DefinedIn(ev.post, ev.entry, ev.name, ev.val)
    /\ (status = "running" /\ last.k = "Assign")
          => /\ result = log[Len(log)].val
             /\ environment = log[Len(log)].post
             /\ Reads(environment, last.name, result)

\* i = 0  for i in [1, 2] { t = i  i = 7 } has run: in the first iteration
\* t, bound nowhere, was defined in the iteration's frame, and i = 7 updated
\* the loop variable in that frame and left the outer i at 0
C11_Witness ==
    /\ status = "running"
    /\ last = ForLocal
    /\ \E k \in 1..Len(log) :
          /\ log[k].e = "assign" /\ log[k].name = "t"
          /\ ~EnvHas(log[k].entry, "t")
          /\ log[k].post[1]["t"] = Num(1)
    /\ \E k \in 1..Len(log) :
          /\ log[k].e = "assign" /\ log[k].name = "i"
          /\ Len(log[k].entry) = 3
          /\ "i" \in DOMAIN log[k].entry[2]
          /\ log[k].entry[1]["i"] = Num(1)
          /\ log[k].entry[2]["i"] = Num(0)
          /\ log[k].post[1]["i"] = Num(7)
          /\ log[k].post[2]["i"] = Num(0)

\* C12: the frame of a call binds exactly the parameters: the i-th one to
\* the value of the i-th argument when there is one (checked for the
\* arguments that are number literals) and to Nil when there is none;
\* arguments after the last parameter bind nothing and are not evaluated.
\* pair (return [a, b]) therefore succeeds with one argument and with
\* three, the third being an undefined variable, whenever pair is defined.
C12_ArgumentsBindPositionally ==
    /\ \A k \in 1..Len(log) :
          log[k].e = "call" =>
             LET ev == log[k]
                 n  == Len(ev.params)
                 m  == Len(ev.arguments)
             IN  /\ DOMAIN ev.frame = {ev.params[i] : i \in 1..n}
                 /\ \A i \in 1..n :
                       /\ (i <= m /\ ev.arguments[i].k = "Number")
                             => ev.frame[ev.params[i]] = ev.arguments[i].v
                       /\ i > m => ev.frame[ev.params[i]] = Nil
    /\ \A stmt \in PairStatements :
          (last = stmt /\ stderr # "Undefined function") =>
             /\ status = "running"
             /\ result.t = "Array" /\ Len(result.a) = 2
             /\ stmt.arguments[1].k = "Number" => result.a[1] = stmt.arguments[1].v
             /\ result.a[2] = IF Len(stmt.arguments) < 2 THEN Nil
                              ELSE stmt.arguments[2].v

\* pair(pair(), 2, nowhere) has run: the inner call bound a and b to Nil,
\* the outer one ignored its third argument
C12_Witness ==
    /\ status = "running"
    /\ last = ExprCall("pair", <<ExprCall("pair", <<>>), N(2), V("nowhere")>>)
    /\ Len(log) = 2
    /\ log[1].frame = [a |-> Nil, b |-> Nil]
    /\ log[2].frame = [a |-> Arr(<<Nil, Nil>>), b |-> Num(2)]
    /\ result = Arr(<<Arr(<<Nil, Nil>>), Num(2)>>)

\* C13: rd (return x), which binds no x itself, yields the x of the
\* environment the call is made in: the caller's parameter when wrap(x)
\* calls it, the loop variable when a `for x` body calls it, the global x
\* as last rebound when the top level calls it.
C13_BodySeesCallSiteBinding ==
    /\ \A k \in 1..Len(log) :
          (log[k].e = "call" /\ log[k].body = FnRd.body)
             => Reads(log[k].entry, "x", log[k].val)
    /\ (last = ExprCall("wrap", <<N(7)>>) /\ stderr # "Undefined function")
          => (status = "running" /\ result = Num(7))
    /\ (last = ExprCall("rd", <<>>) /\ status = "running")
          => Reads(environment, "x", result)

\* fn rd() { return x } and x = 4 in either order, then
\* for x in [1, 2] { rd() }: the calls yielded 1 and 2, the loop variable of
\* the caller, while the global x is 4
C13_Witness ==
    /\ status = "running"
    /\ last = ForRd
    /\ Reads(environment, "x", Num(4))
    /\ log[1].e = "call" /\ log[1].val = Num(1)
    /\ log[3].e = "call" /\ log[3].val = Num(2)

\* the statements in which an undefined variable is read before other
\* statements of the same block, body or file
FailingStatements == {IfFails, ForFails, WhileFails, ExprCall("bad", <<>>), ExprUse("e.m")}

\* "after" has been printed
AfterPrinted(out) ==
    \E i \in 1..(Len(out) - 4) : SubSeq(out, i, i + 4) = <<"a", "f", "t", "e", "r">>

\* C20: an error ends the program.  A statement that reads an undefined
\* variable inside a block, a function body, a loop body, an array or an
\* imported file fails as a whole, and what follows the failing expression
\* is not evaluated: "after" is not printed, z is not assigned, the loop
\* does not start its second iteration; after an error no step changes the
\* state.
C20_ErrorEndsEvaluation ==
    /\ [](last \in FailingStatements =>
             /\ status = "error"
             /\ ~AfterPrinted(stdout)
             /\ ~EnvHas(environment, "z")
             /\ last = ForFails => stdout[Len(stdout) - 1] = "1")
    /\ [](status = "error" => (stderr # "" /\ result = Nil))
    /\ [][status = "error" => UNCHANGED vars]_vars

\* fn bad() { print("in")  nowhere  print("after")  z = 1 } was called: it
\* printed "in" and failed with the callee's frame in place
C20_Witness ==
    /\ status = "error"
    /\ last = ExprCall("bad", <<>>)
    /\ stderr = "Undefined variable"
    /\ Len(environment) = 3
    /\ SubSeq(stdout, Len(stdout) - 2, Len(stdout)) = <<"i", "n", "\n">>

\* the number a literal of the programs over values denotes
LitValue(expr) ==
    IF expr.k = "Unary" THEN Rat(-expr.right.v.n, expr.right.v.d) ELSE expr.v

\* C14, as stated: indexing an array literal a with a number i yields the
\* element at position trunc(i) when 0 <= trunc(i) < len(a) and fails with
\* "Index out of bounds" for every other number, the negative ones included.
C14_IndexChecksBounds ==
    (last.k = "Index" /\ last.object.k = "Array") =>
       LET i == LitValue(last.index)
           t == Trunc(i)
           a == last.object.elements
       IN  IF 0 <= t /\ t < Len(a)
           THEN status = "running" /\ result = a[t + 1].v
           ELSE status = "error" /\ stderr = "Index out of bounds"

\* C15: `and` and `or` evaluate both operands, the left one first, whatever
\* the left value is.  p = a and q = b (or) binds p and q for all Booleans
\* a, b and yields their conjunction (disjunction); o = true and o = false
\* leaves o false; false and print("rhs") prints and then fails on the Nil
\* operand; true or nowhere fails on the undefined variable; nowhere and
\* print("rhs") fails before printing; a Number operand is an error.
C15_LogicalOperatorsAreStrict ==
    /\ \A a \in BOOLEAN, b \in BOOLEAN :
          /\ last = LogicalAssign(a, "And", b) =>
                /\ status = "running" /\ result = Bool(a /\ b)
                /\ Reads(environment, "p", Bool(a))
                /\ Reads(environment, "q", Bool(b))
          /\ last = LogicalAssign(a, "Or", b) =>
                /\ status = "running" /\ result = Bool(a \/ b)
                /\ Reads(environment, "p", Bool(a))
                /\ Reads(environment, "q", Bool(b))
    /\ last = LogicalOrder =>
          /\ status = "running" /\ result = Bool(FALSE)
          /\ Reads(environment, "o", Bool(FALSE))
    /\ last = LogicalRightNil =>
          /\ status = "error" /\ stderr = "Invalid operands for operator"
          /\ Len(stdout) >= 4
          /\ SubSeq(stdout, Len(stdout) - 3, Len(stdout)) = <<"r", "h", "s", "\n">>
    /\ last = LogicalRightFails => (status = "error" /\ stderr = "Undefined variable")
    /\ last = LogicalLeftFails =>
          /\ status = "error" /\ stderr = "Undefined variable"
          /\ (stdout = <<>> \/ stdout[Len(stdout) - 1] # "s")
    /\ (last = LogicalLeftNumber \/ last = LogicalRightNumber)
          => (status = "error" /\ stderr = "Invalid operands for operator")

\* p = false and q = true has run: the result is false and q, assigned by
\* the right operand, is bound
C15_Witness ==
    /\ status = "running"
    /\ last = LogicalAssign(FALSE, "And", TRUE)
    /\ result = Bool(FALSE)
    /\ Reads(environment, "q", Bool(TRUE))

\* C16: for integer literals a and b, a % b with b > 0 evaluates to an
\* integer r with 0 <= r < b and a - r a multiple of b, for negative a too;
\* a % 0 fails with "Modulo by zero".
C16_ModuloIsEuclidean ==
    (last.k = "Binary" /\ last.operator = "Modulo") =>
       LET a == LitValue(last.left).n
           b == LitValue(last.right).n
       IN  /\ b > 0 =>
                /\ status = "running"
                /\ result.t = "Number" /\ result.d = 1
                /\ 0 <= result.n /\ result.n < b
                /\ \E q \in (-(MaxInt + 1))..(MaxInt + 1) : a - result.n = q * b
           /\ b = 0 => (status = "error" /\ stderr = "Modulo by zero")

\* -1 % 3 has evaluated to 2
C16_Witness ==
    /\ status = "running"
    /\ last = ExprBinary(Lit(-1), "Modulo", Lit(3))
    /\ result = Num(2)

\* C17: for integer literals a and b, range(a, b) is an array of
\* max(0, b - a) elements whose element at index i is a + i; it is empty
\* whenever b <= a.
C17_RangeElements ==
    (last.k = "Call" /\ last.callee = "range") =>
       LET a == LitValue(last.arguments[1]).n
           b == LitValue(last.arguments[2]).n
       IN  /\ status = "running"
           /\ result.t = "Array"
           /\ Len(result.a) = IF b > a THEN b - a ELSE 0
           /\ \A i \in 0..(Len(result.a) - 1) : result.a[i + 1] = Num(a + i)
           /\ b <= a => result = Arr(<<>>)

\* range(-1, 2) has evaluated to [-1, 0, 1]
C17_Witness ==
    /\ status = "running"
    /\ last = ExprCall("range", <<Lit(-1), Lit(2)>>)
    /\ result = Arr(<<Num(-1), Num(0), Num(1)>>)

\* the last n elements of a sequence
Suffix(seq, n) == SubSeq(seq, Len(seq) - n + 1, Len(seq))

\* C18, as stated: v.to_string() is the String of v's canonical rendering,
\* the text print(v) writes: every completed to_string yields the Display
\* text of its object, and print(v.to_string()) followed by print(v) writes
\* the same line twice.
C18_ToStringIsCanonicalRendering ==
    /\ \A k \in 1..Len(log) :
          (log[k].e = "apply" /\ log[k].transformer = "to_string")
             => log[k].val = Str(Display(log[k].object_val))
    /\ \A j \in 1..Len(Objects) :
          (last = Render(Objects[j]) /\ status = "running") =>
             LET text == log[1].val.s
                 line == text \o <<"\n">>
             IN  /\ Len(stdout) >= 2 * Len(line)
                 /\ Suffix(stdout, 2 * Len(line)) = line \o line

\* C19, as stated: parse_number yields what to_number yields for a String
\* or a Number, the strings "true" and "false" and the strings that are no
\* number included, and 0 for a value of another kind.
C19_ParseNumberIsToNumber ==
    \A k \in 1..Len(log) :
       (log[k].e = "apply" /\ log[k].transformer = "parse_number") =>
          IF log[k].object_val.t \in {"String", "Number"}
          THEN log[k].val = ApplyToNumber(log[k].object_val)
          ELSE log[k].val = Num(0)

\* C25: an apply that is not a user transformer on a bare variable leaves
\* every binding as it was: a built-in transformer, also on a bare
\* variable, and a user transformer on a literal, an index, a call or
\* another apply leave the environment equal to the one the apply started
\* from; a top-level apply of that kind whose object and arguments are
\* side-effect-free leaves the program's environment unchanged; and in
\* x.a().b() the environment left is the one the inner apply left, where
\* x is the result of a, not of b.
C25_ApplyChangesNoOtherBinding ==
    /\ [](\A k \in 1..Len(log) :
            (log[k].e = "apply" /\ ~UserApplyOnVariable(log[k]))
               => log[k].post = log[k].old_env)
    /\ [][(/\ status' = "running"
           /\ last'.k = "Apply"
           /\ SideEffectFree(last'.object)
           /\ \A i \in 1..Len(last'.arguments) : SideEffectFree(last'.arguments[i])
           /\ \/ last'.transformer \in BuiltinTransformers
              \/ last'.object.k # "Variable")
             => environment' = environment]_vars
    /\ []((status = "running" /\ last = ApplyChained) =>
            /\ Len(log) = 2
            /\ UserApplyOnVariable(log[1])
            /\ environment = log[1].post
            /\ Reads(environment, "x", log[1].val)
            /\ result = log[2].val)

\* transformer square() { return applied * applied }  x = 4
\* x.square().square() has run: x is 16 and the value of the apply is 256
C25_Witness ==
    /\ status = "running"
    /\ last = ApplyChained
    /\ Reads(environment, "x", Num(16))
    /\ result = Num(256)

\* no element occurs twice
NoRepeat(seq) == \A i \in 1..Len(seq) : \A j \in 1..Len(seq) : i # j => seq[i] # seq[j]

\* C26: along every chain of nested `use` evaluations no path occurs
\* twice: a file is evaluated only for a path that is not in the chain of
\* the files being evaluated, every path of that chain is among the
\* imported ones, and the chain is no longer than the number of distinct
\* paths; so every `use` of the program terminates within that nesting
\* depth, whether the files form a cycle or not.
C26_UseCycleTerminates ==
    /\ \A k \in 1..Len(log) :
          (log[k].e = "use" /\ ~log[k].skipped) =>
             LET nest == Append(log[k].chain, log[k].path)
             IN  /\ NoRepeat(nest)
                 /\ \A i \in 1..Len(log[k].chain) :
                       Contains(log[k].imported, log[k].chain[i])
                 /\ Len(nest) <= Cardinality(Paths)
    /\ status = "running" =>
          \A expr \in UseStatements :
             Evaluate(expr, MainInterpreter(<<>>, Cardinality(Paths))).err # "<fuel>"

\* use "d.m" has run in the main file: d.m has used main.m, whose use of
\* d.m was skipped two files deep, and a.m has used itself
C26_Witness ==
    /\ status = "running"
    /\ last = ExprUse("d.m")
    /\ \E k \in 1..Len(log) :
          /\ log[k].e = "use" /\ log[k].skipped
          /\ log[k].path = "d.m"
          /\ log[k].chain = <<"d.m", "main.m">>
    /\ \E k \in 1..Len(log) :
          /\ log[k].e = "use" /\ ~log[k].skipped
          /\ log[k].path = "main.m"
          /\ log[k].chain = <<"d.m">>
    /\ Reads(environment, "dx", Num(1))
    /\ Contains(loads, "a.m")

\* C28: after every top-level statement that completes without error the
\* environment of the main interpreter is a chain of exactly two frames,
\* the program's frame and the frame of the built-ins, which binds print
\* and range; and every call, apply, for, while and use the statement
\* contained left a chain as long as the one it started from.
C28_TwoFramesBetweenStatements ==
    /\ status = "running" =>
          /\ Len(environment) = 2
          /\ DOMAIN environment[2] = {"print", "range"}
    /\ \A k \in 1..Len(log) :
          LET ev == log[k]
          IN  Len(ev.post) = Len(IF ev.e = "apply" THEN ev.old_env ELSE ev.entry)

\* transformer addn(k) { x = 99  applied + k }  x = 4
\* for j in [1, 2] { x.addn(j) } has run: the body of addn worked four
\* frames deep and the program is back at two frames
C28_Witness ==
    /\ status = "running"
    /\ last = ForApply
    /\ Len(environment) = 2
    /\ \E k \in 1..Len(log) :
          /\ log[k].e = "apply" /\ log[k].user
          /\ Len(log[k].inner) = 4

\* C29: the chain a callee's frame encloses is the environment the call
\* started from, before its arguments were evaluated, and the environment
\* the call leaves is the one the arguments left.  In peek(x = 5), with
\* fn peek(a) { return x } and x bound, the body reads the x of before
\* the call while the parameter and, after the call, the caller's x are 5.
C29_SnapshotPrecedesArguments ==
    /\ \A k \in 1..Len(log) :
          log[k].e = "call" =>
             /\ Tail(log[k].start) = log[k].entry
             /\ log[k].post = log[k].old_env
    /\ (status = "running" /\ last = CallAssigns) =>
          LET ev == log[Len(log)]
          IN  /\ ev.e = "call"
              /\ Reads(ev.entry, "x", result)
              /\ ev.frame["a"] = Num(5)
              /\ Reads(ev.old_env, "x", Num(5))
              /\ Reads(environment, "x", Num(5))

\* x = 4  fn peek(a) { return x }  peek(x = 5) has run: the call yielded 4
\* and x is 5
C29_Witness ==
    /\ status = "running"
    /\ last = CallAssigns
    /\ result = Num(4)
    /\ Reads(environment, "x", Num(5))

\* the completed iterations of the `for` of event k, in order
IterationsOf(k) ==
    SelectSeq(SubSeq(log, log[k].first + 1, k - 1),
              LAMBDA ev : ev.e = "iteration" /\ Len(ev.entry) = Len(log[k].entry))

\* the elements a value yields to a `for`
ElementsOf(v) ==
    IF v.t = "Array" THEN v.a ELSE [i \in 1..Len(v.s) |-> Str(<<v.s[i]>>)]

\* C30: a completed `for` has run one iteration for each element of the
\* value its iterable had before the first iteration, in order, whatever
\* the body did to the iterated variable: for x in a { a = a + [x] } over
\* an array a of n elements runs n times, binds x to the n elements a had
\* and leaves a with 2n elements; over a string of n characters it runs n
\* times over those characters.
C30_IterableEvaluatedOnce ==
    /\ \A k \in 1..Len(log) :
          log[k].e = "for" =>
             LET ev == log[k]
                 iterations == IterationsOf(k)
             IN  /\ Len(iterations) = Len(ev.elements)
                 /\ \A i \in 1..Len(iterations) :
                       /\ iterations[i].index = i
                       /\ iterations[i].element = ev.elements[i]
                       /\ iterations[i].elements = ev.elements
                 /\ (ev.iterable.k = "Variable" /\ ev.iterable.name # ev.variable) =>
                       /\ EnvHas(ev.entry, ev.iterable.name)
                       /\ ev.elements = ElementsOf(EnvGet(ev.entry, ev.iterable.name))
    /\ (status = "running" /\ last = ForGrow) =>
          LET ev == log[Len(log)]
              a0 == EnvGet(ev.entry, "a")
          IN  /\ ev.e = "for"
              /\ a0.t = "Array" => Reads(environment, "a", Arr(a0.a \o a0.a))
              /\ a0.t = "String" => /\ EnvGet(environment, "a").t = "String"
                                    /\ Len(ev.elements) = Len(a0.s)

\* a = [1, 2]  for x in a { a = a + [x] } has run: two iterations, over 1
\* and 2, and a is [1, 2, 1, 2]
C30_Witness ==
    /\ status = "running"
    /\ last = ForGrow
    /\ Len(IterationsOf(Len(log))) = 2
    /\ Reads(environment, "a", Arr(<<Num(1), Num(2), Num(1), Num(2)>>))

\* the characters some token, string, comment or blank starts with
Known ==
    Whitespace \cup Digits \cup Letters \cup {"_", "\"", "/", "!"} \cup DOMAIN Punctuation
        \cup DOMAIN Relational

\* whether the character at position i of text yields no token: it is outside
\* Known, or a "!" that no "=" follows
Skipped(text, i) ==
    \/ text[i] \notin Known
    \/ text[i] = "!" /\ (i = Len(text) \/ text[i + 1] # "=")

\* text with a space in the place of every skipped character
Blanked(text) == [i \in 1..Len(text) |-> IF Skipped(text, i) THEN " " ELSE text[i]]

\* whether text has no string and no comment, which take every character up
\* to their end
Plain(text) == \A i \in 1..Len(text) : text[i] \notin {"\"", "/"}

\* C21: for every text, the lexer yields tokens of which exactly one is EOF,
\* the last; lexing the text again yields the same tokens; outside strings
\* and comments a character outside the alphabet and a "!" that no "="
\* follows yield what a space in their place yields, and a text of such
\* characters and blanks only yields the EOF alone.
C21_LexerTotalAndSkips ==
    pc \notin {"read", "lex"} =>
       /\ tokens # <<>>
       /\ tokens[Len(tokens)] = Token("EOF", <<>>)
       /\ \A i \in 1..(Len(tokens) - 1) : tokens[i].token_type # "EOF"
       /\ tokens = Lex(file_str)
       /\ Plain(file_str) => tokens = Lex(Blanked(file_str))
       /\ (\A i \in 1..Len(file_str) : Skipped(file_str, i) \/ file_str[i] \in Whitespace)
             => tokens = <<Token("EOF", <<>>)>>

\* a#! has been lexed to the Identifier a and the EOF
C21_Witness ==
    /\ pc = "parse"
    /\ file_str = <<"a", "#", "!">>
    /\ tokens = <<Token("Identifier", <<"a">>), Token("EOF", <<>>)>>

\* C27, as stated: for every text, the parser returns an AST or one error
\* string and never aborts the process, a Number with several dots included.
C27_ParserNeverAborts ==
    /\ pc # "aborted"
    /\ pc \in {"evaluate", "done"} => (parsed.ok \/ parsed.err # "")

\* C22, as stated: between two statements, at top level and in the body of a
\* function, a transformer, an if, an else, a for and a while, no semicolon,
\* one and several in a row are accepted, and the Expr is the one parsed
\* with a single semicolon.
C22_SemicolonsOptionalAndRepeatable ==
    \A place \in DOMAIN Separated, n \in 0..MaxSemicolons :
        (pc \in {"evaluate", "done"} /\ file_str = Separated[place][n]) =>
           /\ parsed.ok
           /\ Parse(Lex(Separated[place][1])).ok
           /\ parsed.expr = Parse(Lex(Separated[place][1])).expr

\* fn f() { body }    r = f()
ReturnProgram(body) ==
    ExprBlock(<<ExprFunction("f", <<>>, body), ExprAssign("r", ExprCall("f", <<>>))>>)

\* C23, as stated: a return without a value parses to a Return without
\* payload, before a ";" and before the "}" of the body, and the call
\* yields Nil; a return before an expression parses to a Return whose payload
\* is the expression.
C23_ReturnWithoutValue ==
    /\ (pc \in {"evaluate", "done"} /\ file_str \in {ReturnBare, ReturnSemicolon}) =>
          /\ parsed.ok
          /\ parsed.expr = ReturnProgram(<<ExprReturn(<<>>)>>)
          /\ pc = "done" => (status = "running" /\ Reads(environment, "r", Nil))
    /\ (pc \in {"evaluate", "done"} /\ file_str \in {ReturnValue, ReturnValueSemicolon}) =>
          /\ parsed.ok
          /\ parsed.expr = ReturnProgram(<<ExprReturn(<<N(1)>>)>>)
          /\ pc = "done" => (status = "running" /\ Reads(environment, "r", Num(1)))

\* the rung of a binary operator on the ladder, the loosest first; the
\* assignment stands on rung 3
Tightness ==
    [operator \in DOMAIN Lexeme |->
        CASE operator = "Or" -> 1
          [] operator = "And" -> 2
          [] operator \in {"EqualEqual", "BangEqual"} -> 4
          [] operator \in {"LessThan", "LessThanEqual", "GreaterThan", "GreaterThanEqual"}
                -> 5
          [] operator \in {"Plus", "Minus"} -> 6
          [] operator \in {"Multiply", "Divide", "Modulo"} -> 7]

\* C24: 1 op 2 op' 3 parses as (1 op 2) op' 3 when op stands at least as
\* high on the ladder as op', and as 1 op (2 op' 3) otherwise, for all binary
\* operators; a = b == c and d parses as (a = (b == c)) and d, a = b = 1 as
\* a = (b = 1), a = true or false as (a = true) or false; an assignment to a
\* number, a sum, an index or a call fails with "Invalid assignment target",
\* and one to a variable in parentheses, whose Expr is the Variable, assigns.
C24_PrecedenceLadder ==
    pc \in {"evaluate", "done"} =>
       /\ \A first \in DOMAIN Lexeme, second \in DOMAIN Lexeme :
             file_str = Chain(first, second) =>
                /\ parsed.ok
                /\ parsed.expr =
                      IF Tightness[first] >= Tightness[second]
                      THEN ExprBinary(ExprBinary(N(1), first, N(2)), second, N(3))
                      ELSE ExprBinary(N(1), first, ExprBinary(N(2), second, N(3)))
       /\ file_str = AssignEqualityAnd =>
             /\ parsed.ok
             /\ parsed.expr =
                   ExprBinary(ExprAssign("a", ExprBinary(V("b"), "EqualEqual", V("c"))),
                              "And", V("d"))
       /\ file_str = AssignAssign =>
             parsed.ok /\ parsed.expr = ExprAssign("a", ExprAssign("b", N(1)))
       /\ file_str = AssignOr =>
             /\ parsed.ok
             /\ parsed.expr =
                   ExprBinary(ExprAssign("a", ExprBoolean(TRUE)), "Or", ExprBoolean(FALSE))
       /\ file_str \in {AssignToNumber, AssignToSum, AssignToIndex, AssignToCall} =>
             /\ ~parsed.ok
             /\ pc = "done"
             /\ status = "error"
             /\ stderr = "Invalid assignment target"
       /\ file_str = AssignToParenthesized =>
             parsed.ok /\ parsed.expr = ExprAssign("a", N(1))

\* a = b == c and d has been parsed, and so has 1 - 2 * 3
C24_Witness ==
    \/ /\ pc = "evaluate"
       /\ file_str = AssignEqualityAnd
       /\ parsed.ok
       /\ parsed.expr.k = "Binary"
       /\ parsed.expr.left.k = "Assign"
    \/ /\ pc = "evaluate"
       /\ file_str = Chain("Minus", "Multiply")
       /\ parsed.ok
       /\ parsed.expr.right.k = "Binary"

====
